---- MODULE Spec2Model ----
(***************************************************************************)
(* Model of the two producer/consumer handoffs of istorrs/meteor:          *)
(*  - the detector (detector.c): detector_push_frame called from a grab    *)
(*    loop, the processing thread, detector_destroy;                       *)
(*  - the stacker (stacker.c): stacker_on_frame called from a grab loop,   *)
(*    the encode thread, the IVS monitor poll thread (ivs_monitor.c),      *)
(*    stacker_destroy.                                                     *)
(* The detector and the stacker share no state (nightcam_main.c calls one  *)
(* after the other from the same loop).  `mode` says what the grab loop    *)
(* feeds: "detector" is the grab thread of meteor_module.c followed by     *)
(* meteor_module_deinit; "stacker" is the stacker half of the              *)
(* nightcam_main.c loop and teardown; "nightcam" is the whole              *)
(* nightcam_main.c loop and teardown, explored for one block and one       *)
(* stack.  Threads of a subsystem that is not fed do not exist (pc "none").*)
(*                                                                         *)
(* Pixel planes are abstracted by provenance: a block (or accumulator, or  *)
(* averaged plane) is the sequence of frame numbers folded into it since   *)
(* it was last zeroed.  Frame k (k = 1, 2, ...) carries timestamp k.       *)
(* Calls made outside a mutex (ftp_block_reset, ftp_block_update,          *)
(* ftp_block_finalize, write_jpeg_nv12) are interleaved as whole calls.    *)
(*                                                                         *)
(* Spec and FairSpec are the threads.  Four further specifications follow  *)
(* single-threaded parts with the program's own constants and integer      *)
(* widths: PushSpec (one pixel under detector_push_frame), FtSpec (one     *)
(* pixel through ftp_block_update, ftp_block_finalize, isqrt32 and the     *)
(* candidate test), HgSpec (hough_vote and hough_find_peaks on one         *)
(* accumulator) and PbSpec (the control flow of process_block).            *)
(***************************************************************************)
EXTENDS Integers, Sequences, FiniteSets, TLC

\* ---- bounds ------------------------------------------------------------
\* Frames per detection block.  The program value is 256
\* (meteor_config.h:14); the model scales it down.
FTP_BLOCK_FRAMES == 2
\* Number of blocks the grab loop may complete before it must stop.
MaxBlocks == 4
\* st->frames_per_stack (a run-time parameter of stacker_create).
FramesPerStack == 2
\* Number of successful IVS polls the monitor thread may perform.
MaxPolls == 1

MaxFrames == MaxBlocks * FTP_BLOCK_FRAMES
\* Frames explored when both subsystems run: one block and one stack.
MaxFramesBoth ==
    IF FTP_BLOCK_FRAMES > FramesPerStack THEN FTP_BLOCK_FRAMES ELSE FramesPerStack

VARIABLES
    mode,           \* which subsystem the grab loop feeds
    \* grab loop and teardown (nightcam_main.c, meteor_module.c)
    main_pc,        \* position of the main thread
    nframes,        \* frames acquired so far; the current frame's number
    ivs,            \* stacker_on_frame's local IVSMotionStats ivs
    \* DetectorState
    blocks,         \* det->blocks[0..1]
    active,         \* det->active
    frame_count,    \* det->frame_count
    pending,        \* det->pending
    det_running,    \* det->running
    det_mutex,      \* holder of det->mutex
    det_freed,      \* blocks, Hough accumulator and staging planes freed
    \* processing thread
    proc_pc,        \* position of proc_thread_func
    bidx,           \* proc_thread_func's local bidx (-1 before the first take)
    staging,        \* det->maxpixel_buf .. stdpixel_buf: what was finalised
    \* StackerState
    st_frame_count, \* st->frame_count
    y_acc,          \* st->y_acc / st->uv_acc
    y_avg,          \* st->y_avg / st->uv_avg
    enc_pending,    \* st->enc_pending
    enc_ts_ms,      \* st->enc_ts_ms
    enc_ivs,        \* st->enc_ivs
    stack_index,    \* st->stack_index
    st_running,     \* st->running
    st_mutex,       \* holder of st->mutex
    st_freed,       \* accumulators and averaged planes freed
    \* encode thread
    enc_pc,         \* position of enc_thread_func
    enc_loc,        \* enc_thread_func's locals ts, idx, ivs
    \* IVS monitor (ivs_monitor.c)
    s_started,      \* s_started
    mon_running,    \* s_mon.running
    mon_stats,      \* s_mon.stats
    mon_pc,         \* position of monitor_thread
    npolls,         \* successful polls performed so far
    \* record of handoff events (log lines and take/reset counts) and of
    \* the IVS snapshots taken
    hist,
    \* single-threaded views, one per specification below
    pp,             \* one FTPPixel of one block under detector_push_frame
    ft,             \* one FTPPixel through update, finalize and thresholding
    hg,             \* a HoughAccum through hough_vote and hough_find_peaks
    pb,             \* one call of process_block
    dg,             \* process_block on one block built from given frames
    ff,             \* one call of ff_write or ff_make_filename
    ep,             \* one call of event_push_json or event_push_file
    gl,             \* one producer loop with its frame buffer
    ev              \* a MeteorEventCtx under update, should_capture, record

main_vars == <<mode, main_pc, nframes, ivs>>
det_vars  == <<blocks, active, frame_count, pending, det_running, det_mutex, det_freed>>
proc_vars == <<proc_pc, bidx, staging>>
st_vars   == <<st_frame_count, y_acc, y_avg, enc_pending, enc_ts_ms, enc_ivs,
               stack_index, st_running, st_mutex, st_freed>>
enc_vars  == <<enc_pc, enc_loc>>
mon_vars  == <<s_started, mon_running, mon_stats, mon_pc, npolls>>

sys_vars  == <<main_vars, det_vars, proc_vars, st_vars, enc_vars, mon_vars, hist>>
view_vars == <<pp, ft, hg, pb, dg, ff, ep, gl, ev>>
not_pp == <<ft, hg, pb, dg, ff, ep, gl, ev>>
not_ft == <<pp, hg, pb, dg, ff, ep, gl, ev>>
not_hg == <<pp, ft, pb, dg, ff, ep, gl, ev>>
not_pb == <<pp, ft, hg, dg, ff, ep, gl, ev>>
not_dg == <<pp, ft, hg, pb, ff, ep, gl, ev>>
not_ff == <<pp, ft, hg, pb, dg, ep, gl, ev>>
not_ep == <<pp, ft, hg, pb, dg, ff, gl, ev>>
not_gl == <<pp, ft, hg, pb, dg, ff, ep, ev>>
not_ev == <<pp, ft, hg, pb, dg, ff, ep, gl>>

vars == <<sys_vars, view_vars>>

\* Value of a single-threaded view in a specification that does not use it.
Off == [pc |-> "off"]

\* ---- ftp.c ---------------------------------------------------------------

\* ftp_block_create: a zeroed block.
ftp_block_create ==
    [frames |-> <<>>, frame_count |-> 0, timestamp_ms |-> 0, block_index |-> 0]

\* ftp_block_reset: zero the pixels, frame_count = 0, store the timestamp,
\* block_index++ (uint8_t).
ftp_block_reset(blk, start_timestamp_ms) ==
    [frames |-> <<>>, frame_count |-> 0, timestamp_ms |-> start_timestamp_ms,
     block_index |-> (blk.block_index + 1) % 256]

\* ftp_block_update: fold one frame into every pixel, frame_count++.
ftp_block_update(blk, frame) ==
    [blk EXCEPT !.frames = Append(@, frame), !.frame_count = @ + 1]

\* ftp_block_finalize: the four output planes summarise the frames that are
\* in the block, divided by max(frame_count, 1).
ftp_block_finalize(blk) ==
    [frames |-> blk.frames,
     fc |-> IF blk.frame_count > 0 THEN blk.frame_count ELSE 1]

\* ---- ivs_monitor.c -------------------------------------------------------

ZeroStats == [polls |-> 0, active_polls |-> 0, total_rois |-> 0, last_rois |-> 0]

\* ivs_monitor_get_stats: zeros when the monitor was never started.
ivs_monitor_get_stats == IF s_started THEN mon_stats ELSE ZeroStats

\* ivs_monitor_reset_stats: no-op when the monitor was never started.
ivs_monitor_reset_stats == IF s_started THEN ZeroStats ELSE mon_stats

\* ---- initial state: after detector_create, stacker_create and
\* ---- ivs_monitor_start (which may fail) ----------------------------------

Init ==
    /\ mode \in {"detector", "stacker", "nightcam"}
    /\ main_pc = "grab" /\ nframes = 0 /\ ivs = ZeroStats
    /\ blocks = [b \in {0, 1} |-> ftp_block_create]
    /\ active = 0 /\ frame_count = 0 /\ pending = -1
    /\ det_running = TRUE /\ det_mutex = "none" /\ det_freed = FALSE
    /\ proc_pc = (IF mode # "stacker" THEN "start" ELSE "none") /\ bidx = -1
    /\ staging = [frames |-> <<>>, fc |-> 0]
    /\ st_frame_count = 0 /\ y_acc = <<>> /\ y_avg = <<>>
    /\ enc_pending = 0 /\ enc_ts_ms = 0 /\ enc_ivs = ZeroStats
    /\ stack_index = 0 /\ st_running = TRUE /\ st_mutex = "none"
    /\ st_freed = FALSE
    /\ enc_pc = (IF mode # "detector" THEN "start" ELSE "none")
    /\ enc_loc = [ts |-> 0, idx |-> 0, ivs |-> ZeroStats]
    /\ s_started \in (IF mode # "detector" THEN BOOLEAN ELSE {FALSE})
    /\ mon_running = s_started
    /\ mon_stats = ZeroStats
    /\ mon_pc = IF s_started THEN "poll" ELSE "done"
    /\ npolls = 0
    /\ hist = [handed |-> <<>>, dropped |-> <<>>, held |-> {},
               taken |-> 0, resets |-> 0, snap_polls |-> 0]
    /\ pp = Off /\ ft = Off /\ hg = Off /\ pb = Off /\ dg = Off /\ ff = Off /\ ep = Off
    /\ gl = Off /\ ev = Off

\* The processing thread is inside process_block (it has taken a block and
\* has not finished the final ftp_block_reset).
InProcessBlock == proc_pc \in {"finalize", "detect", "reset"}

\* ---- grab loop (nightcam_main.c main, meteor_module.c grab_thread_func) --

\* meteor_framesource_get_frame succeeds: a new frame with timestamp
\* monotonic_ms(); go on to detector_push_frame or stacker_on_frame.
GrabFrame ==
    /\ main_pc = "grab"
    /\ nframes < (IF mode = "nightcam" THEN MaxFramesBoth ELSE MaxFrames)
    /\ nframes' = nframes + 1
    /\ main_pc' = IF mode = "stacker" THEN "stack" ELSE "push"
    /\ UNCHANGED <<view_vars, mode, ivs, det_vars, proc_vars, st_vars, enc_vars, mon_vars, hist>>

\* Where the loop goes when detector_push_frame returns: stacker_on_frame
\* in nightcam_main.c, the next iteration in meteor_module.c.
AfterPush == IF mode = "nightcam" THEN "stack" ELSE "release"

\* detector_push_frame up to the mutex without the ftp_block_reset on the
\* first frame of a block.
PushUpdateNoReset ==
    /\ main_pc = "push"
    /\ LET a    == active
           blk1 == ftp_block_update(blocks[a], nframes)
           full == frame_count + 1 >= FTP_BLOCK_FRAMES
           blk2 == IF full THEN [blk1 EXCEPT !.timestamp_ms = nframes] ELSE blk1
       IN /\ blocks' = [blocks EXCEPT ![a] = blk2]
          /\ frame_count' = frame_count + 1
          /\ main_pc' = IF full THEN "push_lock" ELSE AfterPush
    /\ UNCHANGED <<view_vars, mode, nframes, ivs, active, pending, det_running, det_mutex,
                   det_freed, proc_vars, st_vars, enc_vars, mon_vars, hist>>

\* detector_push_frame up to the mutex: reset on the first frame of a block,
\* update, count; on a full block stamp it with the current timestamp.
PushUpdate ==
    /\ main_pc = "push"
    /\ LET a    == active
           blk0 == IF frame_count = 0
                   THEN ftp_block_reset(blocks[a], nframes) ELSE blocks[a]
           blk1 == ftp_block_update(blk0, nframes)
           full == frame_count + 1 >= FTP_BLOCK_FRAMES
           blk2 == IF full THEN [blk1 EXCEPT !.timestamp_ms = nframes] ELSE blk1
       IN /\ blocks' = [blocks EXCEPT ![a] = blk2]
          /\ frame_count' = frame_count + 1
          /\ main_pc' = IF full THEN "push_lock" ELSE AfterPush
    /\ UNCHANGED <<view_vars, mode, nframes, ivs, active, pending, det_running, det_mutex,
                   det_freed, proc_vars, st_vars, enc_vars, mon_vars, hist>>

\* pthread_mutex_lock(&det->mutex) in detector_push_frame.
PushLock ==
    /\ main_pc = "push_lock" /\ det_mutex = "none"
    /\ det_mutex' = "main"
    /\ main_pc' = "push_handoff"
    /\ UNCHANGED <<view_vars, mode, nframes, ivs, blocks, active, frame_count, pending,
                   det_running, det_freed, proc_vars, st_vars, enc_vars,
                   mon_vars, hist>>

\* detector_push_frame's critical section with the pthread_cond_signal
\* forgotten.
PushHandoffNoSignal ==
    /\ main_pc = "push_handoff"
    /\ LET a == active
           o == nframes \div FTP_BLOCK_FRAMES
           h == IF InProcessBlock /\ hist.taken = 1
                THEN hist.held \cup {o} ELSE hist.held
       IN IF pending < 0
          THEN /\ pending' = a
               /\ active' = 1 - a
               /\ hist' = [hist EXCEPT !.handed = Append(@, o), !.held = h]
          ELSE /\ UNCHANGED <<pending, active>>
               /\ hist' = [hist EXCEPT !.dropped = Append(@, o), !.held = h]
    /\ UNCHANGED proc_pc
    /\ frame_count' = 0
    /\ det_mutex' = "none"
    /\ main_pc' = AfterPush
    /\ UNCHANGED <<view_vars, mode, nframes, ivs, blocks, det_running, det_freed, bidx, staging,
                   st_vars, enc_vars, mon_vars>>

\* detector_push_frame's critical section handing off without switching
\* the active block.
PushHandoffKeepsActive ==
    /\ main_pc = "push_handoff"
    /\ LET a == active
           o == nframes \div FTP_BLOCK_FRAMES
           h == IF InProcessBlock /\ hist.taken = 1
                THEN hist.held \cup {o} ELSE hist.held
       IN IF pending < 0
          THEN /\ pending' = a
               /\ UNCHANGED active
               /\ proc_pc' = IF proc_pc = "waiting" THEN "woken" ELSE proc_pc
               /\ hist' = [hist EXCEPT !.handed = Append(@, o), !.held = h]
          ELSE /\ UNCHANGED <<pending, active, proc_pc>>
               /\ hist' = [hist EXCEPT !.dropped = Append(@, o), !.held = h]
    /\ frame_count' = 0
    /\ det_mutex' = "none"
    /\ main_pc' = AfterPush
    /\ UNCHANGED <<view_vars, mode, nframes, ivs, blocks, det_running, det_freed, bidx, staging,
                   st_vars, enc_vars, mon_vars>>

\* The critical section of detector_push_frame: hand the block off when
\* pending < 0 (and signal), otherwise log and drop; unlock.
PushHandoff ==
    /\ main_pc = "push_handoff"
    /\ LET a == active
           o == nframes \div FTP_BLOCK_FRAMES
           h == IF InProcessBlock /\ hist.taken = 1
                THEN hist.held \cup {o} ELSE hist.held
       IN IF pending < 0
          THEN /\ pending' = a
               /\ active' = 1 - a
               /\ proc_pc' = IF proc_pc = "waiting" THEN "woken" ELSE proc_pc
               /\ hist' = [hist EXCEPT !.handed = Append(@, o), !.held = h]
          ELSE /\ UNCHANGED <<pending, active, proc_pc>>
               /\ hist' = [hist EXCEPT !.dropped = Append(@, o), !.held = h]
    /\ frame_count' = 0
    /\ det_mutex' = "none"
    /\ main_pc' = AfterPush
    /\ UNCHANGED <<view_vars, mode, nframes, ivs, blocks, det_running, det_freed, bidx, staging,
                   st_vars, enc_vars, mon_vars>>


\* ---- stacker_on_frame (stacker.c) ----------------------------------------

\* stacker_on_frame up to the IVS snapshot: accumulate; when the stack is
\* complete write the average into y_avg/uv_avg (dark subtraction rewrites
\* the same planes in place) and zero the accumulators.
StackAccumulate ==
    /\ main_pc = "stack"
    /\ LET acc == Append(y_acc, nframes)
           fc  == st_frame_count + 1
       IN IF fc < FramesPerStack
          THEN /\ y_acc' = acc
               /\ st_frame_count' = fc
               /\ main_pc' = "release"
               /\ UNCHANGED y_avg
          ELSE /\ y_avg' = acc
               /\ y_acc' = <<>>
               /\ st_frame_count' = 0
               /\ main_pc' = "stack_get"
    /\ UNCHANGED <<view_vars, mode, nframes, ivs, det_vars, proc_vars, enc_pending, enc_ts_ms,
                   enc_ivs, stack_index, st_running, st_mutex, st_freed,
                   enc_vars, mon_vars, hist>>

\* ivs_monitor_get_stats(&ivs)
StackGetStats ==
    /\ main_pc = "stack_get"
    /\ ivs' = ivs_monitor_get_stats
    /\ hist' = [hist EXCEPT !.snap_polls = @ + ivs_monitor_get_stats.polls]
    /\ main_pc' = "stack_reset"
    /\ UNCHANGED <<view_vars, mode, nframes, det_vars, proc_vars, st_vars, enc_vars, mon_vars>>

\* ivs_monitor_reset_stats()
StackResetStats ==
    /\ main_pc = "stack_reset"
    /\ mon_stats' = ivs_monitor_reset_stats
    /\ main_pc' = "stack_lock"
    /\ UNCHANGED <<view_vars, mode, nframes, ivs, det_vars, proc_vars, st_vars, enc_vars,
                   s_started, mon_running, mon_pc, npolls, hist>>

\* pthread_mutex_lock(&st->mutex) in stacker_on_frame.
StackLock ==
    /\ main_pc = "stack_lock" /\ st_mutex = "none"
    /\ st_mutex' = "main"
    /\ main_pc' = "stack_handoff"
    /\ UNCHANGED <<view_vars, mode, nframes, ivs, det_vars, proc_vars, st_frame_count, y_acc,
                   y_avg, enc_pending, enc_ts_ms, enc_ivs, stack_index,
                   st_running, st_freed, enc_vars, mon_vars, hist>>

\* The critical section of stacker_on_frame storing the timestamp and the
\* motion snapshot before it tests enc_pending.
StackHandoffStoresWhenBusy ==
    /\ main_pc = "stack_handoff"
    /\ enc_ts_ms' = nframes
    /\ enc_ivs' = ivs
    /\ IF enc_pending = 0
       THEN /\ enc_pending' = 1
            /\ stack_index' = stack_index + 1
            /\ enc_pc' = IF enc_pc = "waiting" THEN "woken" ELSE enc_pc
       ELSE UNCHANGED <<enc_pending, stack_index, enc_pc>>
    /\ st_mutex' = "none"
    /\ main_pc' = "release"
    /\ UNCHANGED <<view_vars, mode, nframes, ivs, det_vars, proc_vars, st_frame_count, y_acc,
                   y_avg, st_running, st_freed, enc_loc, mon_vars, hist>>

\* The critical section of stacker_on_frame: hand off when enc_pending is
\* clear (and signal), otherwise log and drop; unlock.
StackHandoff ==
    /\ main_pc = "stack_handoff"
    /\ IF enc_pending = 0
       THEN /\ enc_ts_ms' = nframes
            /\ enc_ivs' = ivs
            /\ enc_pending' = 1
            /\ stack_index' = stack_index + 1
            /\ enc_pc' = IF enc_pc = "waiting" THEN "woken" ELSE enc_pc
       ELSE UNCHANGED <<enc_ts_ms, enc_ivs, enc_pending, stack_index, enc_pc>>
    /\ st_mutex' = "none"
    /\ main_pc' = "release"
    /\ UNCHANGED <<view_vars, mode, nframes, ivs, det_vars, proc_vars, st_frame_count, y_acc,
                   y_avg, st_running, st_freed, enc_loc, mon_vars, hist>>

\* meteor_framesource_release_frame: end of one loop iteration.
ReleaseFrame ==
    /\ main_pc = "release"
    /\ main_pc' = "grab"
    /\ UNCHANGED <<view_vars, mode, nframes, ivs, det_vars, proc_vars, st_vars, enc_vars,
                   mon_vars, hist>>

\* ---- processing thread (detector.c: proc_thread_func, process_block) -----

\* pthread_mutex_lock at thread start, after process_block, and the
\* re-acquisition when pthread_cond_wait returns.
ProcLock ==
    /\ proc_pc \in {"start", "woken", "relock"} /\ det_mutex = "none"
    /\ det_mutex' = "proc"
    /\ proc_pc' = "loop"
    /\ UNCHANGED <<view_vars, main_vars, blocks, active, frame_count, pending,
                   det_running, det_freed, bidx, staging, st_vars, enc_vars,
                   mon_vars, hist>>

\* Loop head with the mutex held and nothing pending: pthread_cond_wait
\* releases the mutex and blocks.
ProcWait ==
    /\ proc_pc = "loop" /\ det_running /\ pending < 0
    /\ det_mutex' = "none"
    /\ proc_pc' = "waiting"
    /\ UNCHANGED <<view_vars, main_vars, blocks, active, frame_count, pending,
                   det_running, det_freed, bidx, staging, st_vars, enc_vars,
                   mon_vars, hist>>

\* pthread_cond_wait may return without a signal.
ProcSpuriousWake ==
    /\ proc_pc = "waiting"
    /\ proc_pc' = "woken"
    /\ UNCHANGED <<view_vars, main_vars, det_vars, bidx, staging, st_vars, enc_vars,
                   mon_vars, hist>>

\* The take with the pthread_mutex_unlock before process_block forgotten.
ProcTakeKeepsLock ==
    /\ proc_pc = "loop" /\ det_running /\ pending >= 0
    /\ bidx' = pending
    /\ pending' = -1
    /\ proc_pc' = "finalize"
    /\ hist' = [hist EXCEPT !.taken = @ + 1]
    /\ UNCHANGED <<view_vars, main_vars, blocks, active, frame_count, det_running,
                   det_mutex, det_freed, staging, st_vars, enc_vars, mon_vars>>

\* The take by a loop that drains a pending block before it looks at
\* running.
ProcTakeAfterStop ==
    /\ proc_pc = "loop" /\ pending >= 0
    /\ bidx' = pending
    /\ pending' = -1
    /\ det_mutex' = "none"
    /\ proc_pc' = "finalize"
    /\ hist' = [hist EXCEPT !.taken = @ + 1]
    /\ UNCHANGED <<view_vars, main_vars, blocks, active, frame_count, det_running,
                   det_freed, staging, st_vars, enc_vars, mon_vars>>

\* Loop head with a block pending: take it (bidx = pending, pending = -1),
\* unlock, and enter process_block.
ProcTake ==
    /\ proc_pc = "loop" /\ det_running /\ pending >= 0
    /\ bidx' = pending
    /\ pending' = -1
    /\ det_mutex' = "none"
    /\ proc_pc' = "finalize"
    /\ hist' = [hist EXCEPT !.taken = @ + 1]
    /\ UNCHANGED <<view_vars, main_vars, blocks, active, frame_count, det_running,
                   det_freed, staging, st_vars, enc_vars, mon_vars>>

\* process_block: ftp_block_finalize into the staging planes.
ProcFinalize ==
    /\ proc_pc = "finalize"
    /\ staging' = ftp_block_finalize(blocks[bidx])
    /\ proc_pc' = "detect"
    /\ UNCHANGED <<view_vars, main_vars, det_vars, bidx, st_vars, enc_vars, mon_vars, hist>>

\* process_block: candidates, Hough, validation, file and HTTP work; all of
\* it reads the staging planes only.
ProcDetect ==
    /\ proc_pc = "detect"
    /\ proc_pc' = "reset"
    /\ UNCHANGED <<view_vars, main_vars, det_vars, bidx, staging, st_vars, enc_vars,
                   mon_vars, hist>>

\* process_block: the final ftp_block_reset(blk, 0).
ProcReset ==
    /\ proc_pc = "reset"
    /\ blocks' = [blocks EXCEPT ![bidx] = ftp_block_reset(@, 0)]
    /\ proc_pc' = "relock"
    /\ hist' = [hist EXCEPT !.resets = @ + 1]
    /\ UNCHANGED <<view_vars, main_vars, active, frame_count, pending, det_running,
                   det_mutex, det_freed, bidx, staging, st_vars, enc_vars,
                   mon_vars>>

\* Loop head with running cleared: unlock and return.
ProcExit ==
    /\ proc_pc = "loop" /\ ~det_running
    /\ det_mutex' = "none"
    /\ proc_pc' = "done"
    /\ UNCHANGED <<view_vars, main_vars, blocks, active, frame_count, pending,
                   det_running, det_freed, bidx, staging, st_vars, enc_vars,
                   mon_vars, hist>>


\* ---- encode thread (stacker.c: enc_thread_func) --------------------------

\* pthread_mutex_lock at thread start, after an encode, and the
\* re-acquisition when pthread_cond_wait returns.
EncLock ==
    /\ enc_pc \in {"start", "woken", "relock"} /\ st_mutex = "none"
    /\ st_mutex' = "enc"
    /\ enc_pc' = "loop"
    /\ UNCHANGED <<view_vars, main_vars, det_vars, proc_vars, st_frame_count, y_acc, y_avg,
                   enc_pending, enc_ts_ms, enc_ivs, stack_index, st_running,
                   st_freed, enc_loc, mon_vars, hist>>

\* Loop head, nothing pending: pthread_cond_wait.
EncWait ==
    /\ enc_pc = "loop" /\ st_running /\ enc_pending = 0
    /\ st_mutex' = "none"
    /\ enc_pc' = "waiting"
    /\ UNCHANGED <<view_vars, main_vars, det_vars, proc_vars, st_frame_count, y_acc, y_avg,
                   enc_pending, enc_ts_ms, enc_ivs, stack_index, st_running,
                   st_freed, enc_loc, mon_vars, hist>>

\* pthread_cond_wait may return without a signal.
EncSpuriousWake ==
    /\ enc_pc = "waiting"
    /\ enc_pc' = "woken"
    /\ UNCHANGED <<view_vars, main_vars, det_vars, proc_vars, st_vars, enc_loc, mon_vars, hist>>

\* Loop head with a stack pending: copy ts, idx and ivs, clear enc_pending,
\* unlock.
EncTake ==
    /\ enc_pc = "loop" /\ st_running /\ enc_pending = 1
    /\ enc_loc' = [ts |-> enc_ts_ms, idx |-> stack_index, ivs |-> enc_ivs]
    /\ enc_pending' = 0
    /\ st_mutex' = "none"
    /\ enc_pc' = "encode"
    /\ UNCHANGED <<view_vars, main_vars, det_vars, proc_vars, st_frame_count, y_acc, y_avg,
                   enc_ts_ms, enc_ivs, stack_index, st_running, st_freed,
                   mon_vars, hist>>

\* write_jpeg_nv12 whose failure ends the iteration without the companion
\* /event.
EncEncodeFailureSkipsEvent ==
    /\ enc_pc = "encode"
    /\ \E ok \in BOOLEAN : enc_pc' = IF ok THEN "post_stack" ELSE "relock"
    /\ UNCHANGED <<view_vars, main_vars, det_vars, proc_vars, st_vars, enc_loc, mon_vars, hist>>

\* write_jpeg_nv12(tmp_path, st->y_avg, st->uv_avg, quality): reads the
\* averaged planes; fails when the file cannot be opened.
EncEncode ==
    /\ enc_pc = "encode"
    /\ \E ok \in BOOLEAN : enc_pc' = IF ok THEN "post_stack" ELSE "post_event"
    /\ UNCHANGED <<view_vars, main_vars, det_vars, proc_vars, st_vars, enc_loc, mon_vars, hist>>

\* event_push_file(.., "/stack", ..) and unlink(tmp_path).
EncPostStack ==
    /\ enc_pc = "post_stack"
    /\ enc_pc' = "post_event"
    /\ UNCHANGED <<view_vars, main_vars, det_vars, proc_vars, st_vars, enc_loc, mon_vars, hist>>

\* event_push_json: the companion /event.
EncPostEvent ==
    /\ enc_pc = "post_event"
    /\ enc_pc' = "relock"
    /\ UNCHANGED <<view_vars, main_vars, det_vars, proc_vars, st_vars, enc_loc, mon_vars, hist>>

\* Loop head with running cleared: unlock and return.
EncExit ==
    /\ enc_pc = "loop" /\ ~st_running
    /\ st_mutex' = "none"
    /\ enc_pc' = "done"
    /\ UNCHANGED <<view_vars, main_vars, det_vars, proc_vars, st_frame_count, y_acc, y_avg,
                   enc_pending, enc_ts_ms, enc_ivs, stack_index, st_running,
                   st_freed, enc_loc, mon_vars, hist>>

\* ---- IVS monitor thread (ivs_monitor.c: monitor_thread) ------------------

\* One successful meteor_ivs_poll; the counters are updated under s_mon.mutex.
MonitorPoll ==
    /\ mon_pc = "poll" /\ mon_running /\ npolls < MaxPolls
    /\ \E triggered \in {0, 1} :
         mon_stats' = [polls        |-> mon_stats.polls + 1,
                       last_rois    |-> triggered,
                       active_polls |-> mon_stats.active_polls
                                        + (IF triggered > 0 THEN 1 ELSE 0),
                       total_rois   |-> mon_stats.total_rois + triggered]
    /\ npolls' = npolls + 1
    /\ UNCHANGED <<view_vars, main_vars, det_vars, proc_vars, st_vars, enc_vars,
                   s_started, mon_running, mon_pc, hist>>

\* while (mon->running) fails: the thread returns.
MonitorExit ==
    /\ mon_pc = "poll" /\ ~mon_running
    /\ mon_pc' = "done"
    /\ UNCHANGED <<view_vars, main_vars, det_vars, proc_vars, st_vars, enc_vars,
                   s_started, mon_running, mon_stats, npolls, hist>>

\* ---- teardown (nightcam_main.c, after the grab loop) ---------------------

\* The stop signal clears `running`: the grab loop ends and the teardown
\* starts (ivs_monitor_stop only when the monitor was started).
StopLoop ==
    /\ main_pc = "grab"
    /\ main_pc' = IF mode = "detector" THEN "dd_lock"
                 ELSE IF s_started THEN "ivs_stop" ELSE "sd_lock"
    /\ UNCHANGED <<view_vars, mode, nframes, ivs, det_vars, proc_vars, st_vars, enc_vars,
                   mon_vars, hist>>

\* ivs_monitor_stop: s_mon.running = 0.
IvsStop ==
    /\ main_pc = "ivs_stop"
    /\ mon_running' = FALSE
    /\ main_pc' = "ivs_join"
    /\ UNCHANGED <<view_vars, mode, nframes, ivs, det_vars, proc_vars, st_vars, enc_vars,
                   s_started, mon_stats, mon_pc, npolls, hist>>

\* ivs_monitor_stop: pthread_join(s_mon.thread).
IvsJoin ==
    /\ main_pc = "ivs_join" /\ mon_pc = "done"
    /\ main_pc' = "sd_lock"
    /\ UNCHANGED <<view_vars, mode, nframes, ivs, det_vars, proc_vars, st_vars, enc_vars,
                   mon_vars, hist>>

\* stacker_destroy: pthread_mutex_lock.
StackerDestroyLock ==
    /\ main_pc = "sd_lock" /\ st_mutex = "none"
    /\ st_mutex' = "main"
    /\ main_pc' = "sd_stop"
    /\ UNCHANGED <<view_vars, mode, nframes, ivs, det_vars, proc_vars, st_frame_count, y_acc,
                   y_avg, enc_pending, enc_ts_ms, enc_ivs, stack_index,
                   st_running, st_freed, enc_vars, mon_vars, hist>>

\* stacker_destroy: running = 0, pthread_cond_signal, unlock.
StackerDestroyStop ==
    /\ main_pc = "sd_stop"
    /\ st_running' = FALSE
    /\ enc_pc' = IF enc_pc = "waiting" THEN "woken" ELSE enc_pc
    /\ st_mutex' = "none"
    /\ main_pc' = "sd_join"
    /\ UNCHANGED <<view_vars, mode, nframes, ivs, det_vars, proc_vars, st_frame_count, y_acc,
                   y_avg, enc_pending, enc_ts_ms, enc_ivs, stack_index, st_freed,
                   enc_loc, mon_vars, hist>>

\* stacker_destroy: pthread_join(enc_thread), then destroy and free.
StackerDestroyJoin ==
    /\ main_pc = "sd_join" /\ enc_pc = "done"
    /\ st_freed' = TRUE
    /\ main_pc' = IF mode = "nightcam" THEN "dd_lock" ELSE "exited"
    /\ UNCHANGED <<view_vars, mode, nframes, ivs, det_vars, proc_vars, st_frame_count, y_acc,
                   y_avg, enc_pending, enc_ts_ms, enc_ivs, stack_index,
                   st_running, st_mutex, enc_vars, mon_vars, hist>>

\* detector_destroy: pthread_mutex_lock.
DetectorDestroyLock ==
    /\ main_pc = "dd_lock" /\ det_mutex = "none"
    /\ det_mutex' = "main"
    /\ main_pc' = "dd_stop"
    /\ UNCHANGED <<view_vars, mode, nframes, ivs, blocks, active, frame_count, pending,
                   det_running, det_freed, proc_vars, st_vars, enc_vars,
                   mon_vars, hist>>

\* detector_destroy with the pthread_cond_signal forgotten.
DetectorDestroyStopNoSignal ==
    /\ main_pc = "dd_stop"
    /\ det_running' = FALSE
    /\ det_mutex' = "none"
    /\ main_pc' = "dd_join"
    /\ UNCHANGED <<view_vars, mode, nframes, ivs, blocks, active, frame_count, pending,
                   det_freed, proc_vars, st_vars, enc_vars, mon_vars, hist>>

\* detector_destroy: running = 0, pthread_cond_signal, unlock.
DetectorDestroyStop ==
    /\ main_pc = "dd_stop"
    /\ det_running' = FALSE
    /\ proc_pc' = IF proc_pc = "waiting" THEN "woken" ELSE proc_pc
    /\ det_mutex' = "none"
    /\ main_pc' = "dd_join"
    /\ UNCHANGED <<view_vars, mode, nframes, ivs, blocks, active, frame_count, pending,
                   det_freed, bidx, staging, st_vars, enc_vars, mon_vars, hist>>

\* detector_destroy freeing without waiting for the processing thread.
DetectorDestroyNoJoin ==
    /\ main_pc = "dd_join"
    /\ det_freed' = TRUE
    /\ main_pc' = "exited"
    /\ UNCHANGED <<view_vars, mode, nframes, ivs, blocks, active, frame_count, pending,
                   det_running, det_mutex, proc_vars, st_vars, enc_vars,
                   mon_vars, hist>>

\* detector_destroy: pthread_join(proc_thread), then destroy the blocks, the
\* Hough accumulator and the staging planes.
DetectorDestroyJoin ==
    /\ main_pc = "dd_join" /\ proc_pc = "done"
    /\ det_freed' = TRUE
    /\ main_pc' = "exited"
    /\ UNCHANGED <<view_vars, mode, nframes, ivs, blocks, active, frame_count, pending,
                   det_running, det_mutex, proc_vars, st_vars, enc_vars,
                   mon_vars, hist>>

\* ---- specification -------------------------------------------------------

MainStep ==
    \/ GrabFrame \/ PushUpdate \/ PushLock \/ PushHandoff
    \/ StackAccumulate \/ StackGetStats \/ StackResetStats \/ StackLock
    \/ StackHandoff \/ ReleaseFrame
    \/ StopLoop \/ IvsStop \/ IvsJoin
    \/ StackerDestroyLock \/ StackerDestroyStop \/ StackerDestroyJoin
    \/ DetectorDestroyLock \/ DetectorDestroyStop \/ DetectorDestroyJoin

ProcStep ==
    \/ ProcLock \/ ProcWait \/ ProcSpuriousWake \/ ProcTake
    \/ ProcFinalize \/ ProcDetect \/ ProcReset \/ ProcExit

EncStep ==
    \/ EncLock \/ EncWait \/ EncSpuriousWake \/ EncTake
    \/ EncEncode \/ EncPostStack \/ EncPostEvent \/ EncExit

MonitorStep == MonitorPoll \/ MonitorExit

Next == MainStep \/ ProcStep \/ EncStep \/ MonitorStep

Spec == Init /\ [][Next]_vars

TypeOK ==
    /\ active \in {0, 1} /\ pending \in {-1, 0, 1}
    /\ frame_count \in 0..FTP_BLOCK_FRAMES
    /\ det_mutex \in {"none", "main", "proc"}
    /\ st_mutex \in {"none", "main", "enc"}
    /\ enc_pending \in {0, 1}
    /\ nframes \in 0..MaxFrames


\* Fair scheduling: every worker thread that can take a step eventually
\* does, a thread contending for a mutex that keeps becoming free eventually
\* gets it, and the main thread finishes a critical section it has entered
\* and keeps running once it is inside stacker_destroy/detector_destroy.
\* Nothing obliges the grab loop to go on or to stop.
Fairness ==
    /\ WF_vars(ProcWait \/ ProcTake \/ ProcFinalize \/ ProcDetect
               \/ ProcReset \/ ProcExit)
    /\ SF_vars(ProcLock)
    /\ WF_vars(EncWait \/ EncTake \/ EncEncode \/ EncPostStack
               \/ EncPostEvent \/ EncExit)
    /\ SF_vars(EncLock)
    /\ WF_vars(PushHandoff) /\ WF_vars(StackHandoff)
    /\ SF_vars(StackerDestroyLock) /\ SF_vars(DetectorDestroyLock)
    /\ WF_vars(StackerDestroyStop \/ StackerDestroyJoin)
    /\ WF_vars(DetectorDestroyStop \/ DetectorDestroyJoin)

FairSpec == Spec /\ Fairness

\* ---- single-threaded views ----------------------------------------------
\* The specifications below follow one pixel, one accumulator or one call of
\* process_block with the program's own constants.  The threads of Spec do
\* not run in them.

\* FTP_BLOCK_FRAMES as the program defines it (meteor_config.h:14).
FtpBlockFrames == 256

\* The state of Spec's variables in a single-threaded view: nothing runs.
SysOff ==
    /\ mode = "view"
    /\ main_pc = "exited" /\ nframes = 0 /\ ivs = ZeroStats
    /\ blocks = [b \in {0, 1} |-> ftp_block_create]
    /\ active = 0 /\ frame_count = 0 /\ pending = -1
    /\ det_running = FALSE /\ det_mutex = "none" /\ det_freed = FALSE
    /\ proc_pc = "none" /\ bidx = -1
    /\ staging = [frames |-> <<>>, fc |-> 0]
    /\ st_frame_count = 0 /\ y_acc = <<>> /\ y_avg = <<>>
    /\ enc_pending = 0 /\ enc_ts_ms = 0 /\ enc_ivs = ZeroStats
    /\ stack_index = 0 /\ st_running = FALSE /\ st_mutex = "none"
    /\ st_freed = FALSE
    /\ enc_pc = "none"
    /\ enc_loc = [ts |-> 0, idx |-> 0, ivs |-> ZeroStats]
    /\ s_started = FALSE /\ mon_running = FALSE
    /\ mon_stats = ZeroStats /\ mon_pc = "done" /\ npolls = 0
    /\ hist = [handed |-> <<>>, dropped |-> <<>>, held |-> {},
               taken |-> 0, resets |-> 0, snap_polls |-> 0]

\* ---- one FTPPixel (ftp.h, ftp.c) -----------------------------------------

\* uint32_t values are kept as two 16-bit halves (2^32 is beyond the
\* integers TLC computes with).  U32Add adds b < 65536 modulo 2^32.
U32(v) == [hi |-> v \div 65536, lo |-> v % 65536]

U32Add(a, b) ==
    [hi |-> (a.hi + (a.lo + b) \div 65536) % 65536, lo |-> (a.lo + b) % 65536]

\* The number a uint32_t below 2^31 stands for.
U32Val(a) == a.hi * 65536 + a.lo

\* a <= v for a uint32_t a and a number v below 2^31.
U32Leq(a, v) ==
    a.hi < v \div 65536 \/ (a.hi = v \div 65536 /\ a.lo <= v % 65536)

\* A pixel after the memset of ftp_block_reset.
ZeroPixel == [maxpixel |-> 0, maxframe |-> 0, sum |-> 0, sum_sq |-> U32(0)]

\* The body of ftp_block_update's inner loop for one pixel: sum is uint16_t,
\* sum_sq is uint32_t.
ftp_pixel_update(pix, luma, frame_idx) ==
    [maxpixel |-> IF luma > pix.maxpixel THEN luma ELSE pix.maxpixel,
     maxframe |-> IF luma > pix.maxpixel THEN frame_idx ELSE pix.maxframe,
     sum      |-> (pix.sum + luma) % 65536,
     sum_sq   |-> U32Add(pix.sum_sq, luma * luma)]

\* ---- detector_push_frame seen from one pixel of blocks[0] ----------------
\* pp.luma is the pixel's value in every frame of the run, pp.pix and pp.n
\* are the pixel and blocks[0]->frame_count, pp.owed says the processing
\* thread has taken blocks[0] and has not yet run its final ftp_block_reset.
\* det->pending is not tracked: whether a full block is handed off or
\* dropped is open, except that blocks[0] cannot be handed off again before
\* the processing thread has finished with it.

Lumas == {0, 1, 255}

PushInit ==
    /\ SysOff
    /\ pp \in [pc : {"push"}, luma : Lumas, active : {0}, frame_count : {0},
               pix : {ZeroPixel}, n : {0}, owed : {FALSE}, dropped : {FALSE}]
    /\ ft = Off /\ hg = Off /\ pb = Off /\ dg = Off /\ ff = Off /\ ep = Off
    /\ gl = Off /\ ev = Off

\* detector_push_frame with the drop branch leaving det->frame_count alone.
PushFrameDropKeepsCount ==
    /\ pp.pc = "push"
    /\ LET a    == pp.active
           fidx == pp.frame_count % 256
           mine == a = 0
           pix0 == IF mine /\ pp.frame_count = 0 THEN ZeroPixel ELSE pp.pix
           n0   == IF mine /\ pp.frame_count = 0 THEN 0 ELSE pp.n
           pix1 == IF mine THEN ftp_pixel_update(pix0, pp.luma, fidx) ELSE pix0
           n1   == IF mine THEN n0 + 1 ELSE n0
           fc   == pp.frame_count + 1
       IN IF fc >= FtpBlockFrames
          THEN \E free \in (IF mine /\ pp.owed THEN {FALSE} ELSE BOOLEAN) :
                 pp' = [pp EXCEPT !.pix = pix1, !.n = n1,
                                  !.active = IF free THEN 1 - a ELSE a,
                                  !.frame_count = IF free THEN 0 ELSE fc,
                                  !.owed = @ \/ (free /\ mine),
                                  !.dropped = @ \/ (~free /\ mine)]
          ELSE pp' = [pp EXCEPT !.pix = pix1, !.n = n1, !.frame_count = fc]
    /\ UNCHANGED <<sys_vars, not_pp>>

\* detector_push_frame: reset the active block at frame 0, fold the frame
\* in with index frame_count & 0xFF, count it; at FTP_BLOCK_FRAMES hand the
\* block off (active flips) or drop it, and in both cases frame_count = 0.
PushFrame ==
    /\ pp.pc = "push"
    /\ LET a    == pp.active
           fidx == pp.frame_count % 256
           mine == a = 0
           pix0 == IF mine /\ pp.frame_count = 0 THEN ZeroPixel ELSE pp.pix
           n0   == IF mine /\ pp.frame_count = 0 THEN 0 ELSE pp.n
           pix1 == IF mine THEN ftp_pixel_update(pix0, pp.luma, fidx) ELSE pix0
           n1   == IF mine THEN n0 + 1 ELSE n0
           fc   == pp.frame_count + 1
       IN IF fc >= FtpBlockFrames
          THEN \E free \in (IF mine /\ pp.owed THEN {FALSE} ELSE BOOLEAN) :
                 pp' = [pp EXCEPT !.pix = pix1, !.n = n1,
                                  !.active = IF free THEN 1 - a ELSE a,
                                  !.frame_count = 0,
                                  !.owed = @ \/ (free /\ mine),
                                  !.dropped = @ \/ (~free /\ mine)]
          ELSE pp' = [pp EXCEPT !.pix = pix1, !.n = n1, !.frame_count = fc]
    /\ UNCHANGED <<sys_vars, not_pp>>

\* The ftp_block_reset(blk, 0) that ends process_block, on blocks[0]; it
\* runs whenever the processing thread gets to it, also after the producer
\* has come back to blocks[0].
PushConsumerReset ==
    /\ pp.pc = "push" /\ pp.owed
    /\ pp' = [pp EXCEPT !.pix = ZeroPixel, !.n = 0, !.owed = FALSE]
    /\ UNCHANGED <<sys_vars, not_pp>>

PushNext == PushFrame \/ PushConsumerReset

PushSpec == PushInit /\ [][PushNext]_vars

\* ---- ftp_block_finalize and collect_candidates for one pixel -------------

\* The loop of isqrt32, entered with x and x1.
RECURSIVE isqrt32_loop(_, _, _)
isqrt32_loop(n, x, x1) ==
    IF x1 < x THEN isqrt32_loop(n, x1, (x1 + n \div x1) \div 2) ELSE x

\* isqrt32 returning the last x1 instead of the last x.
isqrt32_next(n) ==
    IF n = 0 THEN 0
    ELSE LET x == isqrt32_loop(n, n, (n + 1) \div 2) IN (x + n \div x) \div 2

\* isqrt32: Newton's iteration from x = n.
isqrt32(n) == IF n = 0 THEN 0 ELSE isqrt32_loop(n, n, (n + 1) \div 2)

\* The body of ftp_block_finalize's loop for one pixel of a block with the
\* given frame_count.
ftp_pixel_finalize(pix, block_frame_count) ==
    LET fc      == IF block_frame_count > 0 THEN block_frame_count ELSE 1
        avg     == pix.sum \div fc
        avg_sq  == U32Val(pix.sum_sq) \div fc
        var     == IF avg_sq > avg * avg THEN avg_sq - avg * avg ELSE 0
        std_val == isqrt32(var)
    IN [maxpixel |-> pix.maxpixel,
        maxframe |-> pix.maxframe,
        avgpixel |-> IF avg > 255 THEN 255 ELSE avg % 256,
        stdpixel |-> IF std_val > 255 THEN 255 ELSE std_val % 256]

\* METEOR_FTP_K (meteor_config.h:20).
METEOR_FTP_K == 5

\* The test collect_candidates applies to one pixel: both sides of the
\* comparison are cast to uint8_t.
is_candidate(maxpx, avgpx, stdpx) ==
    LET diff == maxpx - avgpx
    IN diff > 0 /\ diff % 256 > (METEOR_FTP_K * stdpx) % 256

\* ft follows one pixel from a reset through n updates with frame indices
\* 0..n-1, ftp_block_finalize and the candidate test.  The pixel's luma is
\* ft.a in the frames before ft.s and ft.b from frame ft.s on.  Runs that
\* start at pc "isqrt" apply isqrt32 to one variance value.

FtLumas == {0, 1, 128, 255}
FtSplits == {0, 1, 128, 255}

\* Largest value of avg_sq - avg * avg for lumas in 0..255.
MaxVariance == 65025

LumaAt(i) == IF i < ft.s THEN ft.a ELSE ft.b

FtInit ==
    /\ SysOff
    /\ \/ ft \in [pc : {"update"}, a : FtLumas, b : FtLumas, s : FtSplits,
                  n : {0}, pix : {ZeroPixel}]
       \/ ft \in [pc : {"isqrt"}, v : 0..MaxVariance]
    /\ pp = Off /\ hg = Off /\ pb = Off /\ dg = Off /\ ff = Off /\ ep = Off
    /\ gl = Off /\ ev = Off

\* ftp_block_update with the next frame, as detector_push_frame calls it
\* (frame_idx = the number of frames already in the block).
FtUpdate ==
    /\ ft.pc = "update" /\ ft.n < FtpBlockFrames
    /\ ft' = [ft EXCEPT !.pix = ftp_pixel_update(@, LumaAt(ft.n), ft.n % 256),
                        !.n = @ + 1]
    /\ UNCHANGED <<sys_vars, not_ft>>

\* ftp_block_finalize.
FtFinalize ==
    /\ ft.pc = "update"
    /\ ft' = [pc |-> "finalized", a |-> ft.a, b |-> ft.b, s |-> ft.s,
              n |-> ft.n, pix |-> ft.pix,
              out |-> ftp_pixel_finalize(ft.pix, ft.n)]
    /\ UNCHANGED <<sys_vars, not_ft>>

\* collect_candidates on the finalised planes.
FtCollect ==
    /\ ft.pc = "finalized"
    /\ ft' = [pc |-> "collected", a |-> ft.a, b |-> ft.b, s |-> ft.s,
              n |-> ft.n, pix |-> ft.pix, out |-> ft.out,
              cand |-> is_candidate(ft.out.maxpixel, ft.out.avgpixel,
                                    ft.out.stdpixel)]
    /\ UNCHANGED <<sys_vars, not_ft>>

\* isqrt32 on one value.
FtIsqrt ==
    /\ ft.pc = "isqrt"
    /\ ft' = [pc |-> "isqrt_done", v |-> ft.v, root |-> isqrt32(ft.v)]
    /\ UNCHANGED <<sys_vars, not_ft>>

FtNext == FtUpdate \/ FtFinalize \/ FtCollect \/ FtIsqrt

FtSpec == FtInit /\ [][FtNext]_vars

\* ---- hough.c --------------------------------------------------------------

\* HOUGH_THETA_STEPS, HOUGH_RHO_MAX (meteor_config.h:23, 26) and
\* DETECTOR_MAX_LINES (detector.h:18).
HOUGH_THETA_STEPS == 180
HOUGH_RHO_MAX == 900
DETECTOR_MAX_LINES == 16

\* The tables trig_init fills: (int16_t)(cos(t * M_PI / 180) * 1024.0) and
\* the same for sin, t = 0..179 (the cast truncates towards zero), as IEEE
\* double arithmetic gives them.  Entry t of the C array is entry t + 1 here.
s_cos_tab ==
    <<1024, 1023, 1023, 1022, 1021, 1020, 1018, 1016, 1014, 1011, 1008, 1005,
       1001, 997, 993, 989, 984, 979, 973, 968, 962, 955, 949, 942,
       935, 928, 920, 912, 904, 895, 886, 877, 868, 858, 848, 838,
       828, 817, 806, 795, 784, 772, 760, 748, 736, 724, 711, 698,
       685, 671, 658, 644, 630, 616, 601, 587, 572, 557, 542, 527,
       512, 496, 480, 464, 448, 432, 416, 400, 383, 366, 350, 333,
       316, 299, 282, 265, 247, 230, 212, 195, 177, 160, 142, 124,
       107, 89, 71, 53, 35, 17, 0, -17, -35, -53, -71, -89,
       -107, -124, -142, -160, -177, -195, -212, -230, -247, -265, -282, -299,
       -316, -333, -350, -366, -383, -400, -416, -432, -448, -464, -480, -496,
       -511, -527, -542, -557, -572, -587, -601, -616, -630, -644, -658, -671,
       -685, -698, -711, -724, -736, -748, -760, -772, -784, -795, -806, -817,
       -828, -838, -848, -858, -868, -877, -886, -895, -904, -912, -920, -928,
       -935, -942, -949, -955, -962, -968, -973, -979, -984, -989, -993, -997,
       -1001, -1005, -1008, -1011, -1014, -1016, -1018, -1020, -1021, -1022, -1023, -1023>>

s_sin_tab ==
    <<0, 17, 35, 53, 71, 89, 107, 124, 142, 160, 177, 195,
       212, 230, 247, 265, 282, 299, 316, 333, 350, 366, 383, 400,
       416, 432, 448, 464, 480, 496, 511, 527, 542, 557, 572, 587,
       601, 616, 630, 644, 658, 671, 685, 698, 711, 724, 736, 748,
       760, 772, 784, 795, 806, 817, 828, 838, 848, 858, 868, 877,
       886, 895, 904, 912, 920, 928, 935, 942, 949, 955, 962, 968,
       973, 979, 984, 989, 993, 997, 1001, 1005, 1008, 1011, 1014, 1016,
       1018, 1020, 1021, 1022, 1023, 1023, 1024, 1023, 1023, 1022, 1021, 1020,
       1018, 1016, 1014, 1011, 1008, 1005, 1001, 997, 993, 989, 984, 979,
       973, 968, 962, 955, 949, 942, 935, 928, 920, 912, 904, 895,
       886, 877, 868, 858, 848, 838, 828, 817, 806, 795, 784, 772,
       760, 748, 736, 724, 711, 698, 685, 671, 658, 644, 630, 616,
       601, 587, 572, 557, 542, 527, 511, 496, 480, 464, 448, 432,
       416, 400, 383, 366, 350, 333, 316, 299, 282, 265, 247, 230,
       212, 195, 177, 160, 142, 124, 107, 89, 71, 53, 35, 17>>

\* C's integer division: the quotient is truncated towards zero.
TruncDiv(a, b) == IF a >= 0 THEN a \div b ELSE -((-a) \div b)

\* rho_f of hough_vote for theta index t.
rho_f(x, y, t) == x * s_cos_tab[t + 1] + y * s_sin_tab[t + 1]

\* idx of hough_vote: rho_f / 1024 + HOUGH_RHO_MAX.
rho_idx(x, y, t) == TruncDiv(rho_f(x, y, t), 1024) + HOUGH_RHO_MAX

\* An accumulator is a function from the cells <<idx, t>> that have been
\* incremented to their counts; every other cell of accum[][] is 0.
ZeroAccum == [c \in {} |-> 0]

Cell(acc, r, t) == IF <<r, t>> \in DOMAIN acc THEN acc[<<r, t>>] ELSE 0

\* hough_vote accepting only idx < HOUGH_RHO_MAX.
hough_vote_half(acc, x, y) ==
    LET hit == {<<rho_idx(x, y, t), t>> :
                  t \in {u \in 0..(HOUGH_THETA_STEPS - 1) :
                           /\ rho_idx(x, y, u) >= 0
                           /\ rho_idx(x, y, u) < HOUGH_RHO_MAX}}
    IN [c \in DOMAIN acc \cup hit |->
          IF c \in hit
          THEN IF Cell(acc, c[1], c[2]) < 65535
               THEN Cell(acc, c[1], c[2]) + 1 ELSE Cell(acc, c[1], c[2])
          ELSE acc[c]]

\* hough_vote: for every theta index, increment accum[idx][t] when idx is
\* inside the array and the cell is below UINT16_MAX.
hough_vote(acc, x, y) ==
    LET hit == {<<rho_idx(x, y, t), t>> :
                  t \in {u \in 0..(HOUGH_THETA_STEPS - 1) :
                           /\ rho_idx(x, y, u) >= 0
                           /\ rho_idx(x, y, u) < 2 * HOUGH_RHO_MAX}}
    IN [c \in DOMAIN acc \cup hit |->
          IF c \in hit
          THEN IF Cell(acc, c[1], c[2]) < 65535
               THEN Cell(acc, c[1], c[2]) + 1 ELSE Cell(acc, c[1], c[2])
          ELSE acc[c]]

\* The 8 neighbours of cell <<r, t>>.
Neighbours(r, t) ==
    {<<r + dr, t + dt>> : dr \in {-1, 0, 1}, dt \in {-1, 0, 1}} \ {<<r, t>>}

\* The two tests of hough_find_peaks's inner loop: the cell reaches the
\* threshold and is not below any of its 8 neighbours.
IsPeak(acc, threshold, r, t) ==
    /\ Cell(acc, r, t) >= threshold
    /\ \A c \in Neighbours(r, t) : ~(Cell(acc, r, t) < Cell(acc, c[1], c[2]))

\* c comes before d in the scan of hough_find_peaks (r outer, t inner).
ScanBefore(c, d) == c[1] < d[1] \/ (c[1] = d[1] /\ c[2] <= d[2])

\* The first n cells of S in scan order, as MeteorLine records.
RECURSIVE ScanLines(_, _, _)
ScanLines(acc, S, n) ==
    IF S = {} \/ n <= 0 THEN <<>>
    ELSE LET c == CHOOSE c \in S : \A d \in S : ScanBefore(c, d)
         IN <<[rho |-> c[1] - HOUGH_RHO_MAX, theta |-> c[2],
               votes |-> acc[c], length_px |-> acc[c]]>>
            \o ScanLines(acc, S \ {c}, n - 1)

\* hough_find_peaks scanning the border rows and columns too.
hough_find_peaks_with_borders(acc, threshold, max_lines) ==
    ScanLines(acc,
              {c \in DOMAIN acc : IsPeak(acc, threshold, c[1], c[2])},
              max_lines)

\* hough_find_peaks for threshold >= 1 (a cell that was never incremented
\* is 0 and fails the threshold test): the scan visits r = 1..2*RHO_MAX-2,
\* t = 1..THETA_STEPS-2 and stops at max_lines peaks.
hough_find_peaks(acc, threshold, max_lines) ==
    ScanLines(acc,
              {c \in DOMAIN acc :
                 /\ c[1] >= 1 /\ c[1] < 2 * HOUGH_RHO_MAX - 1
                 /\ c[2] >= 1 /\ c[2] < HOUGH_THETA_STEPS - 1
                 /\ IsPeak(acc, threshold, c[1], c[2])},
              max_lines)

\* hg follows one accumulator: votes for points of the 640 x 480 detection
\* frame, then one call of hough_find_peaks.

\* Number of hough_vote calls on one accumulator.
MaxVotes == 3

\* The corners of the frame (where rho is extreme), a neighbour of a corner
\* and the centre.
Points == {<<0, 0>>, <<639, 0>>, <<0, 479>>, <<639, 479>>, <<1, 479>>,
           <<320, 240>>}

HgInit ==
    /\ SysOff
    /\ hg = [pc |-> "vote", voted |-> <<>>, accum |-> ZeroAccum]
    /\ pp = Off /\ ft = Off /\ pb = Off /\ dg = Off /\ ff = Off /\ ep = Off
    /\ gl = Off /\ ev = Off

\* hough_vote(h, x, y)
HgVote ==
    /\ hg.pc = "vote" /\ Len(hg.voted) < MaxVotes
    /\ \E p \in Points :
         hg' = [hg EXCEPT !.voted = Append(@, p),
                          !.accum = hough_vote(@, p[1], p[2])]
    /\ UNCHANGED <<sys_vars, not_hg>>

\* hough_find_peaks(h, threshold, lines, DETECTOR_MAX_LINES)
HgFindPeaks ==
    /\ hg.pc = "vote"
    /\ \E th \in 1..MaxVotes :
         hg' = [pc |-> "peaks", voted |-> hg.voted, accum |-> hg.accum,
                th |-> th,
                lines |-> hough_find_peaks(hg.accum, th, DETECTOR_MAX_LINES)]
    /\ UNCHANGED <<sys_vars, not_hg>>

\* hough_reset(h)
HgReset ==
    /\ hg.pc = "peaks"
    /\ hg' = [pc |-> "vote", voted |-> <<>>, accum |-> ZeroAccum]
    /\ UNCHANGED <<sys_vars, not_hg>>

HgNext == HgVote \/ HgFindPeaks \/ HgReset

HgSpec == HgInit /\ [][HgNext]_vars

\* ---- process_block (detector.c) -------------------------------------------

\* meteor_config.h:27, 30, 31, 32 and detector.h:19.
HOUGH_PEAK_THRESHOLD == 8
METEOR_MIN_LENGTH_PX == 15
METEOR_MIN_VOTES == 10
METEOR_MIN_CANDIDATES == 5
DETECTOR_MAX_CANDS == 4096

\* pb follows one call of process_block.  Its inputs are the number of
\* candidates collect_candidates returns (0..DETECTOR_MAX_CANDS), the peaks
\* hough_find_peaks returns, in the order it returns them, each with its
\* votes and with the len_px that line_endpoints and sqrt give for it, and
\* the results of ff_write and of the two POSTs.  pb.log lists the effects
\* in the order they happen.  pb.file tells whether ff_path exists in the
\* staging directory: ff_write creates it with fopen(path, "wb") and leaves
\* it there when a later write or fclose fails (ff_writer.c:45-64); every
\* peak of one call has the same ff_path, built from the ts_ms argument.

\* Number of peaks hough_find_peaks returns (the program allows
\* DETECTOR_MAX_LINES).
MaxPeaks == 2

NCands == {0, METEOR_MIN_CANDIDATES - 1, METEOR_MIN_CANDIDATES,
           METEOR_MIN_VOTES + 2, DETECTOR_MAX_CANDS - 1, DETECTOR_MAX_CANDS}

\* A returned peak has at least HOUGH_PEAK_THRESHOLD votes.
PeakVotes == {HOUGH_PEAK_THRESHOLD, METEOR_MIN_VOTES, METEOR_MIN_VOTES + 2}
PeakLens == {METEOR_MIN_LENGTH_PX - 1, METEOR_MIN_LENGTH_PX}

\* The lists of at most MaxPeaks peaks; no cell holds more votes than there
\* are candidates.
PeakLists(ncands) ==
    UNION {[1..k -> [votes : {v \in PeakVotes : v <= ncands}, len_px : PeakLens]] :
             k \in 0..MaxPeaks}

Effect(op, li, ok) == [op |-> op, li |-> li, ok |-> ok]

PbInit ==
    /\ SysOff
    /\ \E t \in 1..2 :
         pb = [pc |-> "collect", ncands |-> 0, lines |-> <<>>, li |-> 0,
               log |-> <<>>, file |-> FALSE,
               blk |-> [ftp_block_update(ftp_block_create, t)
                          EXCEPT !.timestamp_ms = t]]
    /\ pp = Off /\ ft = Off /\ hg = Off /\ dg = Off /\ ff = Off /\ ep = Off
    /\ gl = Off /\ ev = Off

\* ftp_block_finalize, collect_candidates and the minimum test only.
PbCollectNoSaturationTest ==
    /\ pb.pc = "collect"
    /\ \E n \in NCands :
         pb' = [pb EXCEPT !.ncands = n,
                          !.pc = IF n < METEOR_MIN_CANDIDATES
                                 THEN "reset" ELSE "hough"]
    /\ UNCHANGED <<sys_vars, not_pb>>

\* ftp_block_finalize, collect_candidates and the two tests on ncands.
PbCollect ==
    /\ pb.pc = "collect"
    /\ \E n \in NCands :
         pb' = [pb EXCEPT !.ncands = n,
                          !.pc = IF n < METEOR_MIN_CANDIDATES
                                    \/ n >= DETECTOR_MAX_CANDS
                                 THEN "reset" ELSE "hough"]
    /\ UNCHANGED <<sys_vars, not_pb>>

\* hough_reset, one hough_vote per candidate, hough_find_peaks.
PbHough ==
    /\ pb.pc = "hough"
    /\ \E ls \in PeakLists(pb.ncands) :
         pb' = [pb EXCEPT !.lines = ls, !.li = 1, !.pc = "validate",
                          !.log = Append(@, Effect("hough", 0, TRUE))]
    /\ UNCHANGED <<sys_vars, not_pb>>

\* One iteration of the validation loop that goes on to the next peak after
\* a detection.
PbValidateNoBreak ==
    /\ pb.pc = "validate"
    /\ IF pb.li > Len(pb.lines)
       THEN pb' = [pb EXCEPT !.pc = "reset"]
       ELSE LET line == pb.lines[pb.li] IN
            IF line.votes < METEOR_MIN_VOTES
               \/ line.len_px < METEOR_MIN_LENGTH_PX
            THEN pb' = [pb EXCEPT !.li = @ + 1]
            ELSE \E wrote, created, sent_json, sent_ff \in BOOLEAN :
                   IF ~wrote
                   THEN pb' = [pb EXCEPT
                                 !.li = @ + 1,
                                 !.file = @ \/ created,
                                 !.log = Append(@, Effect("ff_write", pb.li, FALSE))]
                   ELSE pb' = [pb EXCEPT
                                 !.li = @ + 1,
                                 !.file = FALSE,
                                 !.log = @ \o <<Effect("ff_write", pb.li, TRUE),
                                                Effect("post_event", pb.li, sent_json),
                                                Effect("post_ff", pb.li, sent_ff),
                                                Effect("unlink", pb.li, TRUE)>>]
    /\ UNCHANGED <<sys_vars, not_pb>>

\* One iteration of the validation loop that gives up the detection when the
\* JSON POST fails.
PbValidateStopsOnPostFailure ==
    /\ pb.pc = "validate"
    /\ IF pb.li > Len(pb.lines)
       THEN pb' = [pb EXCEPT !.pc = "reset"]
       ELSE LET line == pb.lines[pb.li] IN
            IF line.votes < METEOR_MIN_VOTES
               \/ line.len_px < METEOR_MIN_LENGTH_PX
            THEN pb' = [pb EXCEPT !.li = @ + 1]
            ELSE \E wrote, created, sent_json, sent_ff \in BOOLEAN :
                   IF ~wrote
                   THEN pb' = [pb EXCEPT
                                 !.li = @ + 1,
                                 !.file = @ \/ created,
                                 !.log = Append(@, Effect("ff_write", pb.li, FALSE))]
                   ELSE IF ~sent_json
                   THEN pb' = [pb EXCEPT
                                 !.pc = "reset",
                                 !.file = TRUE,
                                 !.log = @ \o <<Effect("ff_write", pb.li, TRUE),
                                                Effect("post_event", pb.li, FALSE)>>]
                   ELSE pb' = [pb EXCEPT
                                 !.pc = "reset",
                                 !.file = FALSE,
                                 !.log = @ \o <<Effect("ff_write", pb.li, TRUE),
                                                Effect("post_event", pb.li, sent_json),
                                                Effect("post_ff", pb.li, sent_ff),
                                                Effect("unlink", pb.li, TRUE)>>]
    /\ UNCHANGED <<sys_vars, not_pb>>

\* One iteration of the validation loop that returns from process_block when
\* ff_write fails.
PbValidateReturnsOnWriteFailure ==
    /\ pb.pc = "validate"
    /\ IF pb.li > Len(pb.lines)
       THEN pb' = [pb EXCEPT !.pc = "reset"]
       ELSE LET line == pb.lines[pb.li] IN
            IF line.votes < METEOR_MIN_VOTES
               \/ line.len_px < METEOR_MIN_LENGTH_PX
            THEN pb' = [pb EXCEPT !.li = @ + 1]
            ELSE \E wrote, created, sent_json, sent_ff \in BOOLEAN :
                   IF ~wrote
                   THEN pb' = [pb EXCEPT
                                 !.pc = "done",
                                 !.file = @ \/ created,
                                 !.log = Append(@, Effect("ff_write", pb.li, FALSE))]
                   ELSE pb' = [pb EXCEPT
                                 !.pc = "reset",
                                 !.file = FALSE,
                                 !.log = @ \o <<Effect("ff_write", pb.li, TRUE),
                                                Effect("post_event", pb.li, sent_json),
                                                Effect("post_ff", pb.li, sent_ff),
                                                Effect("unlink", pb.li, TRUE)>>]
    /\ UNCHANGED <<sys_vars, not_pb>>

\* One iteration of the validation loop (or its end): skip a peak below
\* METEOR_MIN_VOTES or METEOR_MIN_LENGTH_PX; otherwise ff_write, and on
\* failure go on to the next peak; on success event_push_json,
\* event_push_ff (their results are only logged), unlink, break.
PbValidate ==
    /\ pb.pc = "validate"
    /\ IF pb.li > Len(pb.lines)
       THEN pb' = [pb EXCEPT !.pc = "reset"]
       ELSE LET line == pb.lines[pb.li] IN
            IF line.votes < METEOR_MIN_VOTES
               \/ line.len_px < METEOR_MIN_LENGTH_PX
            THEN pb' = [pb EXCEPT !.li = @ + 1]
            ELSE \E wrote, created, sent_json, sent_ff \in BOOLEAN :
                   IF ~wrote
                   THEN pb' = [pb EXCEPT
                                 !.li = @ + 1,
                                 !.file = @ \/ created,
                                 !.log = Append(@, Effect("ff_write", pb.li, FALSE))]
                   ELSE pb' = [pb EXCEPT
                                 !.pc = "reset",
                                 !.file = FALSE,
                                 !.log = @ \o <<Effect("ff_write", pb.li, TRUE),
                                                Effect("post_event", pb.li, sent_json),
                                                Effect("post_ff", pb.li, sent_ff),
                                                Effect("unlink", pb.li, TRUE)>>]
    /\ UNCHANGED <<sys_vars, not_pb>>

\* reset: ftp_block_reset(blk, 0)
PbReset ==
    /\ pb.pc = "reset"
    /\ pb' = [pb EXCEPT !.pc = "done",
                        !.blk = ftp_block_reset(@, 0),
                        !.log = Append(@, Effect("reset", 0, TRUE))]
    /\ UNCHANGED <<sys_vars, not_pb>>

PbNext == PbCollect \/ PbHough \/ PbValidate \/ PbReset

PbSpec == PbInit /\ [][PbNext]_vars

\* ---- process_block on a block built from given frames --------------------
\* dg follows process_block from the finalized planes of one block of
\* FtpBlockFrames frames through collect_candidates, the Hough votes (one
\* step per candidate), hough_find_peaks and the validation loop, with the
\* pixels, the accumulator and the endpoints computed as the program
\* computes them.

DETECT_WIDTH == 640
DETECT_HEIGHT == 480

\* The blocks: every frame black, except that the last frame holds the
\* white pixels named here (a 30-pixel diagonal, a 30-pixel anti-diagonal,
\* nothing, or the whole frame).
Scenarios == {"diag", "anti", "dark", "flash"}

Streak(scen) ==
    IF scen = "diag" THEN {<<100 + i, 100 + i>> : i \in 0..29}
    ELSE IF scen = "anti" THEN {<<129 - i, 100 + i>> : i \in 0..29}
    ELSE {}

\* Luma in frame k of the block of a pixel on the streak (on = TRUE) or
\* off it.
FrameLuma(scen, on, k) ==
    IF k = FtpBlockFrames - 1 /\ (scen = "flash" \/ on) THEN 255 ELSE 0

\* collect_candidates's test on the finalized planes of one pixel.
CandidateAt(pix) ==
    LET st == ftp_pixel_finalize(pix, FtpBlockFrames)
    IN is_candidate(st.maxpixel, st.avgpixel, st.stdpixel)

\* A set of pixels in raster order (i = y * DETECT_WIDTH + x ascending).
RECURSIVE RasterOrder(_)
RasterOrder(S) ==
    IF S = {} THEN <<>>
    ELSE LET p == CHOOSE q \in S :
                    \A r \in S : q[2] * DETECT_WIDTH + q[1]
                                 <= r[2] * DETECT_WIDTH + r[1]
         IN <<p>> \o RasterOrder(S \ {p})

\* cos(theta) and sin(theta) of line_endpoints for theta = 0..179 degrees,
\* in millionths.  On every line that hough_find_peaks returns for the
\* blocks above, the tests and truncations below give the values the
\* program's double arithmetic gives.
Micro == 1000000

cos_e6 ==
    <<1000000, 999848, 999391, 998630, 997564, 996195, 994522, 992546,
      990268, 987688, 984808, 981627, 978148, 974370, 970296, 965926,
      961262, 956305, 951057, 945519, 939693, 933580, 927184, 920505,
      913545, 906308, 898794, 891007, 882948, 874620, 866025, 857167,
      848048, 838671, 829038, 819152, 809017, 798636, 788011, 777146,
      766044, 754710, 743145, 731354, 719340, 707107, 694658, 681998,
      669131, 656059, 642788, 629320, 615661, 601815, 587785, 573576,
      559193, 544639, 529919, 515038, 500000, 484810, 469472, 453990,
      438371, 422618, 406737, 390731, 374607, 358368, 342020, 325568,
      309017, 292372, 275637, 258819, 241922, 224951, 207912, 190809,
      173648, 156434, 139173, 121869, 104528, 87156, 69756, 52336,
      34899, 17452, 0, -17452, -34899, -52336, -69756, -87156,
      -104528, -121869, -139173, -156434, -173648, -190809, -207912, -224951,
      -241922, -258819, -275637, -292372, -309017, -325568, -342020, -358368,
      -374607, -390731, -406737, -422618, -438371, -453990, -469472, -484810,
      -500000, -515038, -529919, -544639, -559193, -573576, -587785, -601815,
      -615661, -629320, -642788, -656059, -669131, -681998, -694658, -707107,
      -719340, -731354, -743145, -754710, -766044, -777146, -788011, -798636,
      -809017, -819152, -829038, -838671, -848048, -857167, -866025, -874620,
      -882948, -891007, -898794, -906308, -913545, -920505, -927184, -933580,
      -939693, -945519, -951057, -956305, -961262, -965926, -970296, -974370,
      -978148, -981627, -984808, -987688, -990268, -992546, -994522, -996195,
      -997564, -998630, -999391, -999848>>

sin_e6 ==
    <<0, 17452, 34899, 52336, 69756, 87156, 104528, 121869,
      139173, 156434, 173648, 190809, 207912, 224951, 241922, 258819,
      275637, 292372, 309017, 325568, 342020, 358368, 374607, 390731,
      406737, 422618, 438371, 453990, 469472, 484810, 500000, 515038,
      529919, 544639, 559193, 573576, 587785, 601815, 615661, 629320,
      642788, 656059, 669131, 681998, 694658, 707107, 719340, 731354,
      743145, 754710, 766044, 777146, 788011, 798636, 809017, 819152,
      829038, 838671, 848048, 857167, 866025, 874620, 882948, 891007,
      898794, 906308, 913545, 920505, 927184, 933580, 939693, 945519,
      951057, 956305, 961262, 965926, 970296, 974370, 978148, 981627,
      984808, 987688, 990268, 992546, 994522, 996195, 997564, 998630,
      999391, 999848, 1000000, 999848, 999391, 998630, 997564, 996195,
      994522, 992546, 990268, 987688, 984808, 981627, 978148, 974370,
      970296, 965926, 961262, 956305, 951057, 945519, 939693, 933580,
      927184, 920505, 913545, 906308, 898794, 891007, 882948, 874620,
      866025, 857167, 848048, 838671, 829038, 819152, 809017, 798636,
      788011, 777146, 766044, 754710, 743145, 731354, 719340, 707107,
      694658, 681998, 669131, 656059, 642788, 629320, 615661, 601815,
      587785, 573576, 559193, 544639, 529919, 515038, 500000, 484810,
      469472, 453990, 438371, 422618, 406737, 390731, 374607, 358368,
      342020, 325568, 309017, 292372, 275637, 258819, 241922, 224951,
      207912, 190809, 173648, 156434, 139173, 121869, 104528, 87156,
      69756, 52336, 34899, 17452>>

\* floor of the square root: (int)sqrt((double)n) for the small n used here.
FloorSqrt(n) == CHOOSE r \in 0..800 : r * r <= n /\ n < (r + 1) * (r + 1)

\* line_endpoints: intersect x*cos + y*sin = rho with the borders x = 0,
\* x = W-1, y = 0, y = H-1 in this order, keep an intersection v with
\* 0 <= v < H (or W), truncated to int, and return the first two; all zero
\* when fewer than two were found.  v is the fraction f[1] / f[2], f[2] > 0.
line_endpoints(rho, theta_deg) ==
    LET c == cos_e6[theta_deg + 1]
        s == sin_e6[theta_deg + 1]
        W == DETECT_WIDTH
        H == DETECT_HEIGHT
        Frac(n, d) == IF d < 0 THEN <<-n, -d>> ELSE <<n, d>>
        Inside(f, lim) == f[1] >= 0 /\ f[1] < lim * f[2]
        left   == Frac(rho * Micro, s)
        right  == Frac(rho * Micro - (W - 1) * c, s)
        top    == Frac(rho * Micro, c)
        bottom == Frac(rho * Micro - (H - 1) * s, c)
        pts == (IF s # 0 /\ Inside(left, H)
                THEN << <<0, left[1] \div left[2]>> >> ELSE <<>>)
               \o (IF s # 0 /\ Inside(right, H)
                   THEN << <<W - 1, right[1] \div right[2]>> >> ELSE <<>>)
               \o (IF c # 0 /\ Inside(top, W)
                   THEN << <<top[1] \div top[2], 0>> >> ELSE <<>>)
               \o (IF c # 0 /\ Inside(bottom, W)
                   THEN << <<bottom[1] \div bottom[2], H - 1>> >> ELSE <<>>)
    IN IF Len(pts) >= 2
       THEN [x1 |-> pts[1][1], y1 |-> pts[1][2],
             x2 |-> pts[2][1], y2 |-> pts[2][2]]
       ELSE [x1 |-> 0, y1 |-> 0, x2 |-> 0, y2 |-> 0]

\* len_px of the validation loop.
len_px(e) ==
    FloorSqrt((e.x2 - e.x1) * (e.x2 - e.x1) + (e.y2 - e.y1) * (e.y2 - e.y1))

DgInit ==
    /\ SysOff
    /\ \E scen \in Scenarios :
         dg = [pc |-> "update", scen |-> scen, k |-> 0,
               on |-> ZeroPixel, off |-> ZeroPixel,
               cands |-> <<>>, vi |-> 0,
               acc |-> ZeroAccum, lines |-> <<>>, li |-> 0, log |-> <<>>,
               events |-> <<>>]
    /\ pp = Off /\ ft = Off /\ hg = Off /\ pb = Off /\ ff = Off /\ ep = Off
    /\ gl = Off /\ ev = Off

\* detector_push_frame for frame dg.k of the block: ftp_block_update, seen
\* at a pixel on the streak and at a pixel off it (every pixel of the frame
\* has one of these two histories); the full block goes to process_block.
DgUpdate ==
    /\ dg.pc = "update"
    /\ dg' = [dg EXCEPT
                !.on = ftp_pixel_update(@, FrameLuma(dg.scen, TRUE, dg.k),
                                        dg.k % 256),
                !.off = ftp_pixel_update(@, FrameLuma(dg.scen, FALSE, dg.k),
                                         dg.k % 256),
                !.k = @ + 1,
                !.pc = IF dg.k + 1 >= FtpBlockFrames THEN "collect" ELSE "update"]
    /\ UNCHANGED <<sys_vars, not_dg>>

\* ftp_block_finalize, collect_candidates (which stops at
\* DETECTOR_MAX_CANDS) and the two tests on ncands.
DgCollect ==
    /\ dg.pc = "collect"
    /\ LET cands == IF CandidateAt(dg.off) THEN <<>>
                    ELSE IF CandidateAt(dg.on)
                    THEN RasterOrder(Streak(dg.scen)) ELSE <<>>
           ncands == IF CandidateAt(dg.off)
                     THEN DETECTOR_MAX_CANDS ELSE Len(cands)
       IN dg' = [dg EXCEPT !.cands = cands,
                           !.pc = IF ncands < METEOR_MIN_CANDIDATES
                                     \/ ncands >= DETECTOR_MAX_CANDS
                                  THEN "reset" ELSE "vote"]
    /\ UNCHANGED <<sys_vars, not_dg>>

\* One iteration of the loop over the candidates: hough_vote.
DgVote ==
    /\ dg.pc = "vote" /\ dg.vi < Len(dg.cands)
    /\ dg' = [dg EXCEPT !.vi = @ + 1,
                        !.acc = hough_vote(@, dg.cands[dg.vi + 1][1],
                                           dg.cands[dg.vi + 1][2])]
    /\ UNCHANGED <<sys_vars, not_dg>>

\* hough_find_peaks(det->hough, HOUGH_PEAK_THRESHOLD, lines,
\* DETECTOR_MAX_LINES) after the last vote.
DgFindPeaks ==
    /\ dg.pc = "vote" /\ dg.vi = Len(dg.cands)
    /\ dg' = [dg EXCEPT !.lines = hough_find_peaks(dg.acc, HOUGH_PEAK_THRESHOLD,
                                                   DETECTOR_MAX_LINES),
                        !.li = 1, !.pc = "validate"]
    /\ UNCHANGED <<sys_vars, not_dg>>

\* One iteration of the validation loop (or its end), as PbValidate, with
\* the endpoints and len_px of the peak and the candidate object of the
\* JSON event.
DgValidate ==
    /\ dg.pc = "validate"
    /\ IF dg.li > Len(dg.lines)
       THEN dg' = [dg EXCEPT !.pc = "reset"]
       ELSE LET line == dg.lines[dg.li]
                e    == line_endpoints(line.rho, line.theta)
            IN IF line.votes < METEOR_MIN_VOTES
                  \/ len_px(e) < METEOR_MIN_LENGTH_PX
               THEN dg' = [dg EXCEPT !.li = @ + 1]
               ELSE \E wrote, created, sent_json, sent_ff \in BOOLEAN :
                      IF ~wrote
                      THEN dg' = [dg EXCEPT
                                    !.li = @ + 1,
                                    !.log = Append(@, Effect("ff_write", dg.li, FALSE))]
                      ELSE dg' = [dg EXCEPT
                                    !.pc = "reset",
                                    !.events = Append(@,
                                        [rho |-> line.rho, theta |-> line.theta,
                                         x1 |-> e.x1, y1 |-> e.y1,
                                         x2 |-> e.x2, y2 |-> e.y2,
                                         length_px |-> len_px(e),
                                         votes |-> line.votes]),
                                    !.log = @ \o <<Effect("ff_write", dg.li, TRUE),
                                                   Effect("post_event", dg.li, sent_json),
                                                   Effect("post_ff", dg.li, sent_ff),
                                                   Effect("unlink", dg.li, TRUE)>>]
    /\ UNCHANGED <<sys_vars, not_dg>>

\* reset: ftp_block_reset(blk, 0)
DgReset ==
    /\ dg.pc = "reset"
    /\ dg' = [dg EXCEPT !.pc = "done",
                        !.log = Append(@, Effect("reset", 0, TRUE))]
    /\ UNCHANGED <<sys_vars, not_dg>>

DgNext == DgUpdate \/ DgCollect \/ DgVote \/ DgFindPeaks \/ DgValidate \/ DgReset

DgSpec == DgInit /\ [][DgNext]_vars

\* ---- ff_writer.c ----------------------------------------------------------
\* ff follows one call of ff_write (fopen, nine write_u32, four fwrite,
\* fclose; ff.file is the content of the file at path) or one call of
\* ff_make_filename.  Bytes are numbers 0..255, strings are sequences of
\* one-character strings, uint32_t values are U32 records.

\* (uint32_t)(-1)
U32MinusOne == [hi |-> 65535, lo |-> 65535]

\* write_u32 storing the most significant byte first.
write_u32_be(v) == <<v.hi \div 256, v.hi % 256, v.lo \div 256, v.lo % 256>>

\* write_u32: buf[0] = v & 0xFF, buf[1] = (v >> 8) & 0xFF,
\* buf[2] = (v >> 16) & 0xFF, buf[3] = (v >> 24) & 0xFF.
write_u32(v) == <<v.lo % 256, v.lo \div 256, v.hi % 256, v.hi \div 256>>

\* The header fields with width written before height.
ff_fields_width_first(hdr) ==
    <<U32MinusOne, U32(hdr.width), U32(hdr.height), U32(hdr.nframes), U32(0),
      hdr.camno, U32(1), U32(0), U32(hdr.fps * 1000)>>

\* The nine values ff_write passes to write_u32, in order; fps_milli is
\* (uint32_t)(hdr->fps * 1000.0f), exact for the whole-number rates used
\* here.
ff_fields(hdr) ==
    <<U32MinusOne, U32(hdr.height), U32(hdr.width), U32(hdr.nframes), U32(0),
      hdr.camno, U32(1), U32(0), U32(hdr.fps * 1000)>>

\* plane_sz = (size_t)hdr->width * (size_t)hdr->height
plane_sz(hdr) == hdr.width * hdr.height

DigitChar == <<"0", "1", "2", "3", "4", "5", "6", "7", "8", "9">>

\* The decimal digits of v, most significant first.
RECURSIVE Digits(_)
Digits(v) ==
    IF v < 10 THEN <<DigitChar[v + 1]>>
    ELSE Digits(v \div 10) \o <<DigitChar[(v % 10) + 1]>>

\* printf's %0<w>u: the digits of v, padded with zeros to at least w.
Dec(v, w) ==
    LET d == Digits(v)
    IN [i \in 1..(IF Len(d) < w THEN w - Len(d) ELSE 0) |-> "0"] \o d

\* What snprintf stores for a string of full: at most bufsz - 1 characters.
Snprintf(bufsz, full) ==
    SubSeq(full, 1, IF Len(full) < bufsz - 1 THEN Len(full) ELSE bufsz - 1)

\* ff_make_filename with %u in place of the zero-padded conversions.
ff_make_filename_unpadded(bufsz, hdr) ==
    Snprintf(bufsz,
             <<"F", "F", "_">> \o hdr.station_id \o <<"_">>
             \o Digits(hdr.year) \o Digits(hdr.month) \o Digits(hdr.day) \o <<"_">>
             \o Digits(hdr.hour) \o Digits(hdr.minute) \o Digits(hdr.second)
             \o <<"_">> \o Digits(hdr.millisecond)
             \o <<"_", "0", "0", "0", "0", "0", "0", ".", "b", "i", "n">>)

\* ff_make_filename: snprintf(buf, bufsz,
\* "FF_%s_%04u%02u%02u_%02u%02u%02u_%03u_000000.bin", ...).
ff_make_filename(bufsz, hdr) ==
    Snprintf(bufsz,
             <<"F", "F", "_">> \o hdr.station_id \o <<"_">>
             \o Dec(hdr.year, 4) \o Dec(hdr.month, 2) \o Dec(hdr.day, 2) \o <<"_">>
             \o Dec(hdr.hour, 2) \o Dec(hdr.minute, 2) \o Dec(hdr.second, 2)
             \o <<"_">> \o Dec(hdr.millisecond, 3)
             \o <<"_", "0", "0", "0", "0", "0", "0", ".", "b", "i", "n">>)

\* Inputs.  Plane j of kind "count" holds 0, 1, 2, ..; of kind "tagged"
\* it holds 50 * j + 0, 1, 2, ...
FfDims == {<<1, 1>>, <<2, 1>>, <<4, 2>>}
FfFrames == {1, FtpBlockFrames}
FfRates == {25, 30}
FfCams == {U32(0), U32(1), U32MinusOne}
FfPlaneKinds == {"count", "tagged"}

FfPlane(kind, j, n) ==
    [i \in 1..n |-> IF kind = "count" THEN i - 1 ELSE 50 * j + i - 1]

FfStations == {<<"X", "X", "0", "0", "0", "1">>, <<"A">>}
FfBufSizes == {64, 128}

\* A proper or improper prefix of a byte string.
Prefixes(b) == {SubSeq(b, 1, n) : n \in 0..Len(b)}

FfInit ==
    /\ SysOff
    /\ \/ \E d \in FfDims, nf \in FfFrames, r \in FfRates, cam \in FfCams,
            kind \in FfPlaneKinds :
            ff = [pc |-> "open", fn |-> "ff_write",
                  hdr |-> [width |-> d[1], height |-> d[2], nframes |-> nf,
                           fps |-> r, camno |-> cam],
                  planes |-> [j \in 1..4 |-> FfPlane(kind, j, d[1] * d[2])],
                  file |-> <<>>, step |-> 0, rc |-> 0]
       \/ \E st \in FfStations, y \in {1970, 2026}, mo \in {1, 12},
            d \in {1, 31}, h \in {0, 23}, mi \in {0, 59}, sec \in {0, 59},
            ms \in {0, 7, 999}, bufsz \in FfBufSizes :
            ff = [pc |-> "name", fn |-> "ff_make_filename",
                  hdr |-> [station_id |-> st, year |-> y, month |-> mo,
                           day |-> d, hour |-> h, minute |-> mi,
                           second |-> sec, millisecond |-> ms],
                  bufsz |-> bufsz, buf |-> <<>>]
    /\ pp = Off /\ ft = Off /\ hg = Off /\ pb = Off /\ dg = Off /\ ep = Off
    /\ gl = Off /\ ev = Off

\* f = fopen(path, "wb"); if (!f) return -1;  A successful open leaves an
\* empty file.
FfOpen ==
    /\ ff.pc = "open"
    /\ \E ok \in BOOLEAN :
         ff' = IF ok THEN [ff EXCEPT !.pc = "fields"]
               ELSE [ff EXCEPT !.pc = "returned", !.rc = -1]
    /\ UNCHANGED <<sys_vars, not_ff>>

\* One write_u32 of the header: on failure rc = -1 and goto done, with fewer
\* than four bytes taken.
FfWriteU32 ==
    /\ ff.pc = "fields"
    /\ LET bytes == write_u32(ff_fields(ff.hdr)[ff.step + 1])
       IN \/ ff' = [ff EXCEPT !.file = @ \o bytes,
                              !.step = IF ff.step + 1 = 9 THEN 0 ELSE @ + 1,
                              !.pc = IF ff.step + 1 = 9 THEN "planes" ELSE @]
          \/ \E part \in Prefixes(bytes) \ {bytes} :
               ff' = [ff EXCEPT !.file = @ \o part, !.rc = -1, !.pc = "close"]
    /\ UNCHANGED <<sys_vars, not_ff>>

\* One fwrite of a plane (maxpixel, maxframe, avgpixel, stdpixel in this
\* order): on failure rc = -1 and goto done, with part of the plane taken.
FfWritePlane ==
    /\ ff.pc = "planes"
    /\ LET bytes == SubSeq(ff.planes[ff.step + 1], 1, plane_sz(ff.hdr))
       IN \/ ff' = [ff EXCEPT !.file = @ \o bytes,
                              !.step = @ + 1,
                              !.pc = IF ff.step + 1 = 4 THEN "close" ELSE @]
          \/ \E part \in Prefixes(bytes) \ {bytes} :
               ff' = [ff EXCEPT !.file = @ \o part, !.rc = -1, !.pc = "close"]
    /\ UNCHANGED <<sys_vars, not_ff>>

\* done: if (fclose(f) != 0) rc = -1; return rc;  When fclose fails, what
\* stdio had buffered may not have reached the file.
FfClose ==
    /\ ff.pc = "close"
    /\ \/ ff' = [ff EXCEPT !.pc = "returned"]
       \/ \E part \in Prefixes(ff.file) :
            ff' = [ff EXCEPT !.file = part, !.rc = -1, !.pc = "returned"]
    /\ UNCHANGED <<sys_vars, not_ff>>

\* One call of ff_make_filename.
FfMakeFilename ==
    /\ ff.pc = "name"
    /\ ff' = [ff EXCEPT !.buf = ff_make_filename(ff.bufsz, ff.hdr),
                        !.pc = "returned"]
    /\ UNCHANGED <<sys_vars, not_ff>>

FfNext == FfOpen \/ FfWriteU32 \/ FfWritePlane \/ FfClose \/ FfMakeFilename

FfSpec == FfInit /\ [][FfNext]_vars

\* ---- event_push.c ---------------------------------------------------------
\* ep follows one call of event_push_json or event_push_file (which
\* event_push_ff and event_push_stack call).  ep.log lists the system and
\* library calls made with their outcomes, ep.chunks is the number of
\* fread buffers the file still holds, ep.left the part of the buffer
\* passed to send_all that is not yet sent.  The server's response is never
\* read.

\* Number of HTTP_SEND_SZ buffers in the file.
MaxChunks == 2
\* Largest number of send() calls one send_all may need.
MaxSends == 2

Call(op, ok) == [op |-> op, ok |-> ok]

EpInit ==
    /\ SysOff
    /\ \/ ep = [pc |-> "open_socket", fn |-> "event_push_json", log |-> <<>>,
                rc |-> 0, what |-> "none", left |-> 0, chunks |-> 0]
       \/ \E n \in 0..MaxChunks :
            ep = [pc |-> "stat", fn |-> "event_push_file", log |-> <<>>,
                  rc |-> 0, what |-> "none", left |-> 0, chunks |-> n]
    /\ pp = Off /\ ft = Off /\ hg = Off /\ pb = Off /\ dg = Off /\ ff = Off
    /\ gl = Off /\ ev = Off

\* event_push_file: stat(filepath, &st) < 0 returns -1 at once.
EpStat ==
    /\ ep.pc = "stat"
    /\ \E ok \in BOOLEAN :
         ep' = [ep EXCEPT !.log = Append(@, Call("stat", ok)),
                          !.rc = IF ok THEN @ ELSE -1,
                          !.pc = IF ok THEN "open_socket" ELSE "returned"]
    /\ UNCHANGED <<sys_vars, not_ep>>

\* open_socket: socket(), inet_pton(), connect(); the first that fails ends
\* it (the socket is closed) and the caller returns -1.  On success the
\* caller goes on to send_all of the header.
EpOpenSocket ==
    /\ ep.pc = "open_socket"
    /\ \E calls \in {<<Call("socket", FALSE)>>,
                     <<Call("socket", TRUE), Call("inet_pton", FALSE)>>,
                     <<Call("socket", TRUE), Call("inet_pton", TRUE),
                       Call("connect", FALSE)>>,
                     <<Call("socket", TRUE), Call("inet_pton", TRUE),
                       Call("connect", TRUE)>>} :
         LET ok == calls[Len(calls)].ok
         IN ep' = [ep EXCEPT !.log = @ \o calls,
                             !.rc = IF ok THEN @ ELSE -1,
                             !.what = IF ok THEN "header" ELSE @,
                             !.left = IF ok THEN MaxSends ELSE @,
                             !.pc = IF ok THEN "send" ELSE "returned"]
    /\ UNCHANGED <<sys_vars, not_ep>>

\* One send() of send_all whose failure is not recorded in rc.
EpSendIgnoresFailure ==
    /\ ep.pc = "send"
    /\ \E n \in 0..ep.left :
         IF n = 0
         THEN ep' = [ep EXCEPT
                       !.log = Append(@, Call("send", FALSE)),
                       !.pc = IF ep.fn = "event_push_file" /\ ep.what = "body"
                              THEN "after_loop" ELSE "close_fd"]
         ELSE ep' = [ep EXCEPT
                       !.log = Append(@, Call("send", TRUE)),
                       !.left = @ - n,
                       !.what = IF ep.left - n = 0 /\ ep.fn = "event_push_json"
                                   /\ ep.what = "header"
                                THEN "body" ELSE @,
                       !.pc = IF ep.left - n > 0 THEN "send"
                              ELSE IF ep.fn = "event_push_json"
                              THEN IF ep.what = "header" THEN "send_body"
                                   ELSE "close_fd"
                              ELSE IF ep.what = "header" THEN "fopen"
                              ELSE "read"]
    /\ UNCHANGED <<sys_vars, not_ep>>

\* One send() of send_all: n <= 0 makes send_all return -1, so rc = -1 and
\* no further send (event_push_json: close; event_push_file: goto done for
\* the header, break for the body); n > 0 advances, and when nothing is left
\* send_all returns 0 and the caller goes on.
EpSend ==
    /\ ep.pc = "send"
    /\ \E n \in 0..ep.left :
         IF n = 0
         THEN ep' = [ep EXCEPT
                       !.log = Append(@, Call("send", FALSE)),
                       !.rc = -1,
                       !.pc = IF ep.fn = "event_push_file" /\ ep.what = "body"
                              THEN "after_loop" ELSE "close_fd"]
         ELSE ep' = [ep EXCEPT
                       !.log = Append(@, Call("send", TRUE)),
                       !.left = @ - n,
                       !.what = IF ep.left - n = 0 /\ ep.fn = "event_push_json"
                                   /\ ep.what = "header"
                                THEN "body" ELSE @,
                       !.pc = IF ep.left - n > 0 THEN "send"
                              ELSE IF ep.fn = "event_push_json"
                              THEN IF ep.what = "header" THEN "send_body"
                                   ELSE "close_fd"
                              ELSE IF ep.what = "header" THEN "fopen"
                              ELSE "read"]
    /\ UNCHANGED <<sys_vars, not_ep>>

\* event_push_json: the second operand of ||, send_all of the JSON body.
EpSendBody ==
    /\ ep.pc = "send_body"
    /\ ep' = [ep EXCEPT !.left = MaxSends, !.pc = "send"]
    /\ UNCHANGED <<sys_vars, not_ep>>

\* event_push_file: f = fopen(filepath, "rb"); failure is rc = -1, goto done.
EpFopen ==
    /\ ep.pc = "fopen"
    /\ \E ok \in BOOLEAN :
         ep' = [ep EXCEPT !.log = Append(@, Call("fopen", ok)),
                          !.rc = IF ok THEN @ ELSE -1,
                          !.what = IF ok THEN "body" ELSE @,
                          !.pc = IF ok THEN "read" ELSE "close_fd"]
    /\ UNCHANGED <<sys_vars, not_ep>>

\* One iteration of the read loop up to send_all: fread returns a buffer,
\* or 0 at end of file, or 0 with the error indicator set.
EpRead ==
    /\ ep.pc = "read"
    /\ \/ /\ ep.chunks > 0
          /\ ep' = [ep EXCEPT !.log = Append(@, Call("fread", TRUE)),
                              !.chunks = @ - 1, !.left = MaxSends,
                              !.pc = "send"]
       \/ /\ ep.chunks = 0
          /\ ep' = [ep EXCEPT !.log = Append(@, Call("fread", TRUE)),
                              !.pc = "after_loop"]
       \/ ep' = [ep EXCEPT !.log = Append(@, Call("fread", FALSE)),
                           !.rc = -1, !.pc = "after_loop"]
    /\ UNCHANGED <<sys_vars, not_ep>>

\* After the loop: if (ferror(f)) rc = -1 (already recorded by EpRead);
\* if (fclose(f) != 0) rc = -1.
EpFclose ==
    /\ ep.pc = "after_loop"
    /\ \E ok \in BOOLEAN :
         ep' = [ep EXCEPT !.log = Append(@, Call("fclose", ok)),
                          !.rc = IF ok THEN @ ELSE -1,
                          !.pc = "close_fd"]
    /\ UNCHANGED <<sys_vars, not_ep>>

\* done: close(fd); return rc;
EpCloseFd ==
    /\ ep.pc = "close_fd"
    /\ ep' = [ep EXCEPT !.log = Append(@, Call("close", TRUE)),
                        !.pc = "returned"]
    /\ UNCHANGED <<sys_vars, not_ep>>

EpNext ==
    \/ EpStat \/ EpOpenSocket \/ EpSend \/ EpSendBody \/ EpFopen \/ EpRead
    \/ EpFclose \/ EpCloseFd

EpSpec == EpInit /\ [][EpNext]_vars

\* ---- one producer loop and its frame buffer -------------------------------
\* (nightcam_main.c main step 11, meteor_module.c grab_thread_func)

\* Acquisition attempts the view follows.
MaxIters == 3

\* gl.frames[k] is the buffer of the k-th successful acquisition: how many
\* times it was released, and how many reads it saw after a release.
\* detect_buf holds the number of the frame last downsampled into it.
GlInit ==
    /\ SysOff
    /\ \E l \in {"nightcam", "module"} :
         gl = [pc |-> "test", loop |-> l, running |-> TRUE, n |-> 0,
               frame |-> 0, frames |-> <<>>, detect_buf |-> 0,
               det_pushed |-> <<>>, stk_pushed |-> <<>>]
    /\ pp = Off /\ ft = Off /\ hg = Off /\ pb = Off /\ dg = Off /\ ff = Off
    /\ ep = Off /\ ev = Off

\* A read of frame k's buffer.
GlRead(frames, k) ==
    IF frames[k].released > 0
    THEN [frames EXCEPT ![k].stale = @ + 1]
    ELSE frames

\* The signal handler, or meteor_module_stop, clears running at any time.
GlStop ==
    /\ gl.pc # "off" /\ gl.running
    /\ gl' = [gl EXCEPT !.running = FALSE]
    /\ UNCHANGED <<sys_vars, not_gl>>

\* while (running)
GlTest ==
    /\ gl.pc = "test"
    /\ gl' = [gl EXCEPT !.pc = IF gl.running THEN "get_frame" ELSE "done"]
    /\ UNCHANGED <<sys_vars, not_gl>>

\* meteor_framesource_get_frame: on failure the loop sleeps and continues.
GlGetFrame ==
    /\ gl.pc = "get_frame"
    /\ gl.n < MaxIters
    /\ \/ gl' = [gl EXCEPT !.pc = "downsample", !.n = @ + 1,
                           !.frame = Len(gl.frames) + 1,
                           !.frames = Append(@, [released |-> 0, stale |-> 0])]
       \/ gl' = [gl EXCEPT !.pc = "test", !.n = @ + 1,
                           !.frame = IF gl.loop = "nightcam" THEN 0 ELSE @]
    /\ UNCHANGED <<sys_vars, not_gl>>

\* meteor_module.c: downsample_y without the release that follows it.
GlDownsampleNoRelease ==
    /\ gl.pc = "downsample"
    /\ gl' = [gl EXCEPT !.pc = "push",
                        !.frames = GlRead(@, gl.frame),
                        !.detect_buf = gl.frame]
    /\ UNCHANGED <<sys_vars, not_gl>>

\* downsample_y reads the frame into detect_buf.
GlDownsample ==
    /\ gl.pc = "downsample"
    /\ gl' = [gl EXCEPT !.pc = IF gl.loop = "module" THEN "release" ELSE "push",
                        !.frames = GlRead(@, gl.frame),
                        !.detect_buf = gl.frame]
    /\ UNCHANGED <<sys_vars, not_gl>>

\* detector_push_frame(det, detect_buf, ...) reads detect_buf only.
GlPushFrame ==
    /\ gl.pc = "push"
    /\ gl' = [gl EXCEPT !.pc = IF gl.loop = "nightcam" THEN "stack" ELSE "test",
                        !.det_pushed = Append(@, gl.detect_buf)]
    /\ UNCHANGED <<sys_vars, not_gl>>

\* nightcam_main.c: stacker_on_frame(stk, data, ts) reads the frame.
GlStackerOnFrame ==
    /\ gl.pc = "stack"
    /\ gl' = [gl EXCEPT !.pc = "release",
                        !.frames = GlRead(@, gl.frame),
                        !.stk_pushed = Append(@, gl.frame)]
    /\ UNCHANGED <<sys_vars, not_gl>>

\* meteor_framesource_release_frame
GlReleaseFrame ==
    /\ gl.pc = "release"
    /\ gl' = [gl EXCEPT !.pc = IF gl.loop = "module" THEN "push" ELSE "test",
                        !.frames[gl.frame].released = @ + 1]
    /\ UNCHANGED <<sys_vars, not_gl>>

GlNext ==
    \/ GlStop \/ GlTest \/ GlGetFrame \/ GlDownsample \/ GlPushFrame
    \/ GlStackerOnFrame \/ GlReleaseFrame

GlSpec == GlInit /\ [][GlNext]_vars

\* ---- event.c and the poll loop of main.c ----------------------------------

\* Last whole second of CLOCK_MONOTONIC the view follows.
MaxSecs == 3
\* Largest max_event_frames the view follows (0 is "unlimited").
MaxCap == 2

\* Readings of CLOCK_MONOTONIC: a struct timespec with tv_nsec on a grid
\* that has a value just below one millisecond and one in mid-second.
Nsecs == {0, 999999, 500000000}
Timespecs == [sec : 0..MaxSecs, nsec : Nsecs]
Before(a, b) == a.sec < b.sec \/ (a.sec = b.sec /\ a.nsec < b.nsec)

\* config.c:87-104, 116-122: cooldown_secs >= 1, capture_interval_ms >= 0,
\* max_event_frames >= 0.
Configs == [cooldown_secs : {1, 2}, capture_interval_ms : {0, 500},
            max_event_frames : 0..MaxCap]

\* elapsed_ms: sec * 1000 + nsec / 1000000 on the two differences, the
\* division truncating toward zero.
elapsed_ms(from, to) ==
    (to.sec - from.sec) * 1000 + TruncDiv(to.nsec - from.nsec, 1000000)

\* meteor_event_init: memset 0, state IDLE, cfg.
meteor_event_init(cfg) ==
    [state |-> "IDLE", event_dir |-> FALSE, frame_count |-> 0,
     total_triggers |-> 0,
     start_time |-> [sec |-> 0, nsec |-> 0],
     last_motion |-> [sec |-> 0, nsec |-> 0],
     last_capture |-> [sec |-> 0, nsec |-> 0],
     cfg |-> cfg]

\* meteor_event_update with the clock reading now and the result of mkdir
\* in make_event_dir (event_dir is written before mkdir is tried).
meteor_event_update(ctx, triggered, now, mkdir_ok) ==
    IF triggered > 0
    THEN LET c == [ctx EXCEPT !.total_triggers = @ + triggered,
                              !.last_motion = now]
         IN CASE ctx.state = "IDLE" ->
                   IF ~mkdir_ok
                   THEN [c EXCEPT !.event_dir = TRUE]
                   ELSE [c EXCEPT !.event_dir = TRUE,
                                  !.start_time = now,
                                  !.frame_count = 0,
                                  !.total_triggers = triggered,
                                  !.state = "ACTIVE"]
              [] ctx.state = "COOLDOWN" -> [c EXCEPT !.state = "ACTIVE"]
              [] OTHER -> c
    ELSE CASE ctx.state = "ACTIVE" -> [ctx EXCEPT !.state = "COOLDOWN"]
           [] ctx.state = "COOLDOWN" ->
                IF elapsed_ms(ctx.last_motion, now) >= ctx.cfg.cooldown_secs * 1000
                THEN [ctx EXCEPT !.state = "IDLE", !.event_dir = FALSE]
                ELSE ctx
           [] OTHER -> ctx

\* meteor_event_should_capture without the per-event frame cap.
meteor_event_should_capture_no_cap(ctx, now) ==
    IF ctx.state = "IDLE" THEN FALSE
    ELSE elapsed_ms(ctx.last_capture, now) >= ctx.cfg.capture_interval_ms

\* meteor_event_should_capture
meteor_event_should_capture(ctx, now) ==
    IF ctx.state = "IDLE" THEN FALSE
    ELSE IF ctx.cfg.max_event_frames > 0
            /\ ctx.frame_count >= ctx.cfg.max_event_frames THEN FALSE
    ELSE elapsed_ms(ctx.last_capture, now) >= ctx.cfg.capture_interval_ms

\* meteor_event_frame_captured
meteor_event_frame_captured(ctx, now) ==
    [ctx EXCEPT !.frame_count = @ + 1, !.last_capture = now]

\* ev follows main.c's loop: ev.ctx is evt, ev.clock the monotonic clock,
\* ev.triggered the last ivs_result.triggered, ev.mkdir the outcome of the
\* mkdir of the last update ("none" when it made none), ev.files the frame
\* numbers of the JPEGs written into the current event directory.
EvInit ==
    /\ SysOff
    /\ \E cfg \in Configs, n \in Nsecs :
         ev = [pc |-> "poll", ctx |-> meteor_event_init(cfg),
               clock |-> [sec |-> 0, nsec |-> n], triggered |-> 0,
               mkdir |-> "none", files |-> {}]
    /\ pp = Off /\ ft = Off /\ hg = Off /\ pb = Off /\ dg = Off /\ ff = Off
    /\ ep = Off /\ gl = Off

\* The signal handler clears running; the loop ends at its next test.
EvStop ==
    /\ ev.pc = "poll"
    /\ ev' = [ev EXCEPT !.pc = "done"]
    /\ UNCHANGED <<sys_vars, not_ev>>

\* meteor_ivs_poll: time passes; a failed poll sleeps and continues.
EvPoll ==
    /\ ev.pc = "poll"
    /\ \E t \in Timespecs, ok \in BOOLEAN, triggered \in 0..1 :
         /\ Before(ev.clock, t)
         /\ ev' = IF ok
                  THEN [ev EXCEPT !.pc = "update", !.clock = t,
                                  !.triggered = triggered]
                  ELSE [ev EXCEPT !.clock = t]
    /\ UNCHANGED <<sys_vars, not_ev>>

\* (void)meteor_event_update(&evt, &ivs_result)
EvUpdate ==
    /\ ev.pc = "update"
    /\ \E mkdir_ok \in BOOLEAN :
         /\ (ev.triggered > 0 /\ ev.ctx.state = "IDLE") \/ mkdir_ok
         /\ ev' = [ev EXCEPT
                     !.pc = "should_capture",
                     !.ctx = meteor_event_update(@, ev.triggered, ev.clock, mkdir_ok),
                     !.mkdir = IF ev.triggered > 0 /\ ev.ctx.state = "IDLE"
                               THEN IF mkdir_ok THEN "ok" ELSE "failed"
                               ELSE "none",
                     !.files = IF ev.triggered > 0 /\ ev.ctx.state = "IDLE"
                                  /\ mkdir_ok
                               THEN {} ELSE @]
    /\ UNCHANGED <<sys_vars, not_ev>>

\* if (meteor_event_should_capture(&evt))
EvShouldCapture ==
    /\ ev.pc = "should_capture"
    /\ ev' = [ev EXCEPT !.pc = IF meteor_event_should_capture(ev.ctx, ev.clock)
                               THEN "capture" ELSE "poll"]
    /\ UNCHANGED <<sys_vars, not_ev>>

\* meteor_capture_frame(FS_CHN, evt.event_dir, evt.frame_count, ..) == 0,
\* then meteor_event_frame_captured(&evt).
EvCapture ==
    /\ ev.pc = "capture"
    /\ \E ok \in BOOLEAN :
         ev' = IF ok
               THEN [ev EXCEPT !.pc = "poll",
                               !.files = @ \cup {ev.ctx.frame_count},
                               !.ctx = meteor_event_frame_captured(@, ev.clock)]
               ELSE [ev EXCEPT !.pc = "poll"]
    /\ UNCHANGED <<sys_vars, not_ev>>

EvNext == EvStop \/ EvPoll \/ EvUpdate \/ EvShouldCapture \/ EvCapture

EvSpec == EvInit /\ [][EvNext]_vars

\* ---- claims --------------------------------------------------------------

\* The frames of the o-th block completed by the grab loop.
BlockRun(o) == [i \in 1..FTP_BLOCK_FRAMES |-> (o - 1) * FTP_BLOCK_FRAMES + i]

\* fr is a contiguous run of FTP_BLOCK_FRAMES pushed frames.
IsFullRun(fr) ==
    /\ Len(fr) = FTP_BLOCK_FRAMES
    /\ \A i \in 1..(Len(fr) - 1) : fr[i + 1] = fr[i] + 1

\* C1: the producer never resets or updates a block while the processing
\* thread owns it (from taking its index out of pending until the final
\* ftp_block_reset of process_block has finished).
C1_ProducerKeepsOffOwnedBlock ==
    [][PushUpdate => ~(InProcessBlock /\ bidx = active)]_vars

\* C2: when a block fills while the processing thread is still inside
\* process_block, detector_push_frame discards it: pending and active stay
\* as they are.
C2_DropWhileProcessing ==
    [][(PushHandoff /\ InProcessBlock)
         => (pending' = pending /\ active' = active)]_vars

\* C3: at every call of ftp_block_finalize from process_block the block
\* holds exactly FTP_BLOCK_FRAMES frames, one contiguous run of pushes.
C3_FinalizeSeesFullBlock ==
    [][ProcFinalize => (/\ blocks[bidx].frame_count = FTP_BLOCK_FRAMES
                        /\ IsFullRun(blocks[bidx].frames))]_vars

\* C4: if the processing thread is inside process_block of the first block
\* when the second and the third block complete, then the second block was
\* handed off, the third was dropped with exactly one log line, no earlier
\* block was dropped, and when the fourth block is handed off it is
\* processed with all of its frames intact.
C4_BackpressureScenario ==
    ({2, 3} \subseteq hist.held) =>
        /\ Len(hist.handed) >= 2 /\ hist.handed[1] = 1 /\ hist.handed[2] = 2
        /\ Cardinality({i \in DOMAIN hist.dropped : hist.dropped[i] = 3}) = 1
        /\ \A i \in DOMAIN hist.dropped : hist.dropped[i] >= 3
        /\ (/\ proc_pc \in {"detect", "reset"}
            /\ hist.handed[hist.taken] = 4)
              => (staging.frames = BlockRun(4) /\ staging.fc = FTP_BLOCK_FRAMES)

\* C5: the processing thread does not hold the detector mutex inside
\* process_block, and the encode thread does not hold the stacker mutex
\* while encoding or posting; a worker holds its mutex only at the loop head.
C5_NoLockDuringWork ==
    /\ InProcessBlock => det_mutex # "proc"
    /\ enc_pc \in {"encode", "post_stack", "post_event"} => st_mutex # "enc"
    /\ det_mutex = "proc" => proc_pc = "loop"
    /\ st_mutex = "enc" => enc_pc = "loop"

\* C5 witness: both workers are busy with consumer work while the main
\* thread holds the stacker mutex.
C5_Witness ==
    InProcessBlock /\ enc_pc = "encode" /\ st_mutex = "main"

\* C6: under fair scheduling, while running stays set, a block index stored
\* in pending is eventually taken, processed and reset to empty by the
\* processing thread, and a pending stack is eventually consumed by the
\* encode thread, also when the signal was sent while the worker was not
\* waiting.
C6_HandoffLiveness ==
    /\ \A b \in {0, 1} :
         (pending = b) ~> (\/ ~det_running
                           \/ /\ proc_pc = "relock" /\ bidx = b
                              /\ blocks[b].frame_count = 0
                              /\ blocks[b].frames = <<>>)
    /\ (enc_pending = 1) ~> (~st_running \/ enc_pending = 0)

\* C6 witness: both handoffs were signalled before either worker had ever
\* waited on its condition variable.
C6_Witness ==
    /\ pending >= 0 /\ proc_pc = "start"
    /\ enc_pending = 1 /\ enc_pc = "start"

\* C7: once stacker_destroy / detector_destroy has been entered it returns:
\* the worker leaves its loop and pthread_join comes back.
C7_DestroyTerminates ==
    /\ (main_pc = "sd_lock") ~> st_freed
    /\ (main_pc = "dd_lock") ~> det_freed

\* C7 witness: both destroys have returned after the workers had work.
C7_Witness ==
    /\ main_pc = "exited" /\ st_freed /\ det_freed
    /\ hist.taken > 0 /\ stack_index > 0

\* C8: when pthread_join has returned in detector_destroy the processing
\* thread has ended and every block it had taken has been through its final
\* reset; nothing is freed while process_block is running.
C8_InFlightCompletes ==
    (main_pc = "exited" \/ det_freed) =>
        (mode = "stacker" \/
            (proc_pc = "done" /\ ~InProcessBlock /\ hist.resets = hist.taken))

\* C8 witness: detector_destroy waits in pthread_join while a taken block is
\* still inside process_block.
C8_Witness ==
    main_pc = "dd_join" /\ InProcessBlock

\* C9: stacker_on_frame never writes y_avg/uv_avg while the encode thread
\* is between consuming enc_pending and finishing write_jpeg_nv12.
C9_AvgNotWrittenWhileEncoding ==
    [][(StackAccumulate /\ y_avg' # y_avg) => enc_pc # "encode"]_vars

\* C10: when a completed stack is dropped because enc_pending is still set,
\* the motion counters have not been reset by that call: they still hold at
\* least what the call's snapshot saw.
C10_DropLeavesCounters ==
    [][(StackHandoff /\ enc_pending = 1)
         => (/\ mon_stats.polls >= ivs.polls
             /\ mon_stats.active_polls >= ivs.active_polls
             /\ mon_stats.total_rois >= ivs.total_rois)]_vars

\* C11: outside the stacker's read-and-reset (ivs_monitor_get_stats followed
\* by ivs_monitor_reset_stats) no counter update of monitor_thread is lost:
\* the polls of all snapshots taken plus the current counter equal the
\* number of successful polls performed.
C11_NoPollLost ==
    main_pc # "stack_reset" => hist.snap_polls + mon_stats.polls = npolls

\* C12: under any sequence of detector_push_frame calls (handoffs, drops and
\* the processing thread's resets included) a block receives at most 256
\* updates between two resets, so every pixel keeps sum <= 65280 and
\* sum_sq <= 16646400 and neither field has wrapped: each still equals the
\* true sum over the frames folded in.
C12_SumsNeverWrap ==
    /\ pp.n <= FtpBlockFrames
    /\ pp.pix.sum <= 65280 /\ U32Leq(pp.pix.sum_sq, 16646400)
    /\ pp.pix.sum = pp.n * pp.luma
    /\ pp.pix.sum_sq = U32(pp.n * pp.luma * pp.luma)

\* A block that was dropped earlier is full again at the largest sums.
C12_Witness ==
    /\ pp.dropped /\ pp.n = FtpBlockFrames /\ pp.luma = 255
    /\ pp.pix.sum = 65280 /\ pp.pix.sum_sq = U32(16646400)

\* What the n frames folded in are, computed from the luma pattern.
FtMax == CHOOSE m \in {LumaAt(i) : i \in 0..(ft.n - 1)} :
             \A i \in 0..(ft.n - 1) : LumaAt(i) <= m

FtFirstMax == CHOOSE i \in 0..(ft.n - 1) :
                 /\ LumaAt(i) = FtMax
                 /\ \A j \in 0..(i - 1) : LumaAt(j) # FtMax

FtCountA == IF ft.n < ft.s THEN ft.n ELSE ft.s

FtSum == FtCountA * ft.a + (ft.n - FtCountA) * ft.b

FtSumSq == FtCountA * ft.a * ft.a + (ft.n - FtCountA) * ft.b * ft.b

\* r is the floor of the square root of v.
IsFloorSqrt(r, v) == r >= 0 /\ r * r <= v /\ (r + 1) * (r + 1) > v

\* C13: after n frames (1 <= n <= 256) with indices 0..n-1, finalize gives
\* the maximum luma, the smallest index attaining it, floor(sum/n) and the
\* floor square root (clamped to 255) of max(floor(sum_sq/n) - avg^2, 0);
\* isqrt32 returns the floor square root of every value in 0..65025.
C13_FinalizeExact ==
    /\ (ft.pc \in {"finalized", "collected"} /\ ft.n >= 1) =>
         LET avg == FtSum \div ft.n
             d   == FtSumSq \div ft.n - avg * avg
             var == IF d > 0 THEN d ELSE 0
         IN /\ ft.out.maxpixel = FtMax
            /\ ft.out.maxframe = FtFirstMax
            /\ ft.out.avgpixel = avg
            /\ \E r \in 0..255 :
                 /\ IsFloorSqrt(r, var) \/ (r = 255 /\ var >= 255 * 255)
                 /\ ft.out.stdpixel = r
    /\ ft.pc = "isqrt_done" => IsFloorSqrt(ft.root, ft.v)

\* A pixel dark for 128 frames and saturated for 128 has been finalised:
\* the maximum is first attained at frame 128 and the deviation is 127.
C13_Witness ==
    /\ ft.pc = "finalized" /\ ft.n = FtpBlockFrames
    /\ ft.a = 0 /\ ft.b = 255 /\ ft.s = 128
    /\ ft.out = [maxpixel |-> 255, maxframe |-> 128, avgpixel |-> 127,
                 stdpixel |-> 127]

\* C14: a pixel is a candidate exactly when maxpixel - avgpixel exceeds the
\* true integer product 5 * stdpixel.
C14_CandidateIffTrueProduct ==
    ft.pc = "collected" =>
        (ft.cand <=> ft.out.maxpixel - ft.out.avgpixel
                       > METEOR_FTP_K * ft.out.stdpixel)

\* Sum of the cells of column t.
RECURSIVE CellSum(_, _)
CellSum(acc, S) ==
    IF S = {} THEN 0
    ELSE LET c == CHOOSE c \in S : TRUE IN acc[c] + CellSum(acc, S \ {c})

ColumnSum(acc, t) == CellSum(acc, {c \in DOMAIN acc : c[2] = t})

\* C16: k votes for one point on a reset accumulator leave exactly 180
\* non-zero cells, one per theta column, each equal to k; and whatever the
\* points, no vote is discarded: every column holds as many votes as were
\* cast.
C16_OneCellPerTheta ==
    /\ \A t \in 0..(HOUGH_THETA_STEPS - 1) :
         ColumnSum(hg.accum, t) = Len(hg.voted)
    /\ (Len(hg.voted) >= 1 /\ \A i \in 1..Len(hg.voted) : hg.voted[i] = hg.voted[1])
         => /\ Cardinality(DOMAIN hg.accum) = HOUGH_THETA_STEPS
            /\ \A t \in 0..(HOUGH_THETA_STEPS - 1) :
                 \E c \in DOMAIN hg.accum : c[2] = t
            /\ \A c \in DOMAIN hg.accum : hg.accum[c] = Len(hg.voted)

\* The far corner of the frame has been voted for MaxVotes times.
C16_Witness ==
    /\ hg.pc = "vote" /\ Len(hg.voted) = MaxVotes
    /\ \A i \in 1..MaxVotes : hg.voted[i] = <<639, 479>>
    /\ Cardinality(DOMAIN hg.accum) = HOUGH_THETA_STEPS

\* C17: the bin a vote lands in is floor(rho_f / 1024), for negative as well
\* as non-negative rho_f: after a vote for a point, the cell at that bin is
\* non-zero in every theta column.
C17_BinIsFloor ==
    \A i \in 1..Len(hg.voted) : \A t \in 0..(HOUGH_THETA_STEPS - 1) :
        Cell(hg.accum,
             rho_f(hg.voted[i][1], hg.voted[i][2], t) \div 1024 + HOUGH_RHO_MAX,
             t) > 0

\* C18: every peak returned reaches the threshold and is strictly greater
\* than each of its 8 neighbours.
C18_PeaksStrictMaxima ==
    hg.pc = "peaks" =>
        \A i \in 1..Len(hg.lines) :
            LET r == hg.lines[i].rho + HOUGH_RHO_MAX
                t == hg.lines[i].theta
            IN /\ hg.lines[i].votes >= hg.th
               /\ \A c \in Neighbours(r, t) :
                    Cell(hg.accum, c[1], c[2]) < hg.lines[i].votes

\* The positions of pb.log that hold the effect op.
LogOps(op) == {i \in 1..Len(pb.log) : pb.log[i].op = op}

\* C15: Hough voting, file writing and POSTs happen only when
\* 5 <= ncands < 4096; in every case the block is reset at the end.
C15_GatedByCandidateCount ==
    /\ (\E i \in 1..Len(pb.log) : pb.log[i].op # "reset")
         => (pb.ncands >= METEOR_MIN_CANDIDATES /\ pb.ncands < DETECTOR_MAX_CANDS)
    /\ pb.pc = "done"
         => (LogOps("reset") = {Len(pb.log)} /\ Len(pb.log) >= 1)

\* A block with a saturated candidate buffer has been processed: nothing
\* but the reset happened.
C15_Witness ==
    /\ pb.pc = "done" /\ pb.ncands = DETECTOR_MAX_CANDS
    /\ pb.log = <<Effect("reset", 0, TRUE)>>

\* A peak passes the filters of the validation loop.
PassesFilters(line) ==
    line.votes >= METEOR_MIN_VOTES /\ line.len_px >= METEOR_MIN_LENGTH_PX

\* C19: the detection emitted for a block is the peak with the most votes
\* among the peaks that pass the filters.
C19_EmitsStrongestPeak ==
    \A i \in LogOps("post_event") :
        \A j \in 1..Len(pb.lines) :
            PassesFilters(pb.lines[j])
                => pb.lines[j].votes <= pb.lines[pb.log[i].li].votes

\* C20: at most one POST to /event and at most one POST to /ff are
\* attempted per block.
C20_OneDetectionPerBlock ==
    /\ Cardinality(LogOps("post_event")) <= 1
    /\ Cardinality(LogOps("post_ff")) <= 1

\* Two peaks pass the filters and the block is done with one detection.
C20_Witness ==
    /\ pb.pc = "done" /\ Len(pb.lines) = 2
    /\ PassesFilters(pb.lines[1]) /\ PassesFilters(pb.lines[2])
    /\ Cardinality(LogOps("post_event")) = 1
    /\ Cardinality(LogOps("post_ff")) = 1

\* C21: for an emitted detection the effects are, in this order, the summary
\* file written, the JSON POST to /event, the file POST to /ff and the
\* unlink; the /ff POST and the unlink follow whether or not the POST before
\* them succeeded, and none of the three happens without the file written.
C21_EffectOrder ==
    pb.pc # "off" =>
      /\ \A i \in 1..Len(pb.log) :
           (pb.log[i].op = "ff_write" /\ pb.log[i].ok) =>
             /\ i + 3 <= Len(pb.log)
             /\ pb.log[i + 1].op = "post_event" /\ pb.log[i + 1].li = pb.log[i].li
             /\ pb.log[i + 2].op = "post_ff" /\ pb.log[i + 2].li = pb.log[i].li
             /\ pb.log[i + 3].op = "unlink" /\ pb.log[i + 3].li = pb.log[i].li
      /\ \A i \in 1..Len(pb.log) :
           pb.log[i].op = "post_event" =>
             i > 1 /\ pb.log[i - 1].op = "ff_write" /\ pb.log[i - 1].ok
      /\ \A i \in 1..Len(pb.log) :
           pb.log[i].op = "post_ff" => i > 1 /\ pb.log[i - 1].op = "post_event"
      /\ \A i \in 1..Len(pb.log) :
           pb.log[i].op = "unlink" => i > 1 /\ pb.log[i - 1].op = "post_ff"

C21_Witness ==
    /\ pb.pc = "done"
    /\ \E i \in 1..Len(pb.log) :
         /\ pb.log[i].op = "post_event" /\ ~pb.log[i].ok
         /\ pb.log[i + 1].op = "post_ff" /\ ~pb.log[i + 1].ok
         /\ pb.log[i + 2].op = "unlink"

\* C22: whatever ff_write, event_push_json and event_push_ff return,
\* process_block cannot stop before its end, and at its end the block it was
\* given has been reset: no frame left in the pixels, frame_count 0,
\* timestamp 0.
C22_AlwaysReset ==
    /\ pb.pc \notin {"off", "done"} => ENABLED PbNext
    /\ pb.pc = "done" =>
         /\ pb.blk.frames = <<>>
         /\ pb.blk.frame_count = 0
         /\ pb.blk.timestamp_ms = 0

C22_Witness ==
    /\ pb.pc = "done"
    /\ \E i \in 1..Len(pb.log) : pb.log[i].op = "ff_write" /\ ~pb.log[i].ok
    /\ \E i \in 1..Len(pb.log) : pb.log[i].op = "post_ff" /\ ~pb.log[i].ok
    /\ pb.blk.frame_count = 0

\* C23: after ff_write has failed for a block, ff_write is not called again
\* for that block.
C23_NoWriteAfterFailure ==
    pb.pc # "off" =>
      \A i, j \in 1..Len(pb.log) :
        (i < j /\ pb.log[i].op = "ff_write" /\ ~pb.log[i].ok) =>
          pb.log[j].op # "ff_write"

\* C24: when the processing thread builds the detection event, the block's
\* timestamp_ms (reported as block_start_ms) is the timestamp that came with
\* the first frame accumulated into the block.
C24_BlockStartIsFirstFrame ==
    (proc_pc = "detect" /\ blocks[bidx].frames # <<>>) =>
      blocks[bidx].timestamp_ms = Head(blocks[bidx].frames)

\* C25: the block of 255 black frames and one frame with the white diagonal
\* (100,100)-(129,129), processed with ff_write succeeding, yields exactly
\* one detection, with theta in {44, 45, 46}, votes >= 10, length_px >= 15
\* and endpoints within 2 pixels of (100,100) and (129,129), and exactly one
\* POST to /event and one to /ff.
C25_DiagonalDetection ==
    (/\ dg.pc = "done" /\ dg.scen = "diag"
     /\ \A i \in 1..Len(dg.log) : dg.log[i].op = "ff_write" => dg.log[i].ok) =>
      /\ Len(dg.events) = 1
      /\ dg.events[1].theta \in {44, 45, 46}
      /\ dg.events[1].votes >= 10
      /\ dg.events[1].length_px >= 15
      /\ dg.events[1].x1 \in 98..102 /\ dg.events[1].y1 \in 98..102
      /\ dg.events[1].x2 \in 127..131 /\ dg.events[1].y2 \in 127..131
      /\ Cardinality({i \in 1..Len(dg.log) : dg.log[i].op = "post_event"}) = 1
      /\ Cardinality({i \in 1..Len(dg.log) : dg.log[i].op = "post_ff"}) = 1

\* C29: the n-th call of stacker_on_frame completes a stack exactly when n
\* is a multiple of frames_per_stack; frame_count stays in
\* [0, frames_per_stack) between calls and the accumulators are zero when it
\* is 0; a completion that finds enc_pending clear hands off exactly once;
\* and for every handoff it takes the encode thread makes at most one POST
\* to /stack and then exactly one POST to /event before it looks for the
\* next handoff.
C29_StackCadence ==
    [][/\ st_frame_count' \in 0..(FramesPerStack - 1)
       /\ (st_frame_count' = 0 /\ ~st_freed') => y_acc' = <<>>
       /\ (main_pc = "stack" /\ main_pc' # "stack") =>
            /\ (main_pc' = "stack_get") = (nframes % FramesPerStack = 0)
            /\ main_pc' \in {"stack_get", "release"}
            /\ st_frame_count' = nframes % FramesPerStack
       /\ (main_pc = "stack_handoff" /\ main_pc' # "stack_handoff"
           /\ enc_pending = 0) =>
            /\ enc_pending' = 1
            /\ stack_index' = stack_index + 1
            /\ enc_ts_ms' = nframes
       /\ (main_pc = "stack_handoff" /\ main_pc' # "stack_handoff"
           /\ enc_pending = 1) =>
            /\ enc_pending' = 1
            /\ stack_index' = stack_index
       /\ (enc_pc' = "encode" /\ enc_pc # "encode") =>
            enc_pending = 1 /\ enc_pending' = 0
       /\ (enc_pc = "encode" /\ enc_pc' # "encode") =>
            enc_pc' \in {"post_stack", "post_event"}
       /\ (enc_pc = "post_stack" /\ enc_pc' # "post_stack") =>
            enc_pc' = "post_event"
       /\ (enc_pc = "post_event" /\ enc_pc' # "post_event") =>
            enc_pc' = "relock"
       /\ (enc_pc' = "post_stack" /\ enc_pc # "post_stack") => enc_pc = "encode"
       /\ (enc_pc' = "post_event" /\ enc_pc # "post_event") =>
            enc_pc \in {"encode", "post_stack"}
      ]_vars

C29_Witness ==
    /\ mode = "stacker"
    /\ stack_index = 2 /\ nframes = 2 * FramesPerStack
    /\ enc_pc = "post_event" /\ enc_loc.idx = 2

\* The uint32_t stored little-endian in bytes i..i+3 of b.
LE32At(b, i) == [hi |-> b[i + 2] + 256 * b[i + 3], lo |-> b[i] + 256 * b[i + 1]]

\* C26: a successful ff_write leaves exactly 36 + 4*W*H bytes: nine
\* little-endian 32-bit fields -1, height, width, nframes, 0, camera id, 1,
\* 0, fps*1000, then the maxpixel, maxframe, avgpixel and stdpixel planes
\* verbatim in this order; the bytes are determined by the header and the
\* four planes.
C26_FileLayout ==
    (ff.pc = "returned" /\ ff.fn = "ff_write" /\ ff.rc = 0) =>
      LET n == ff.hdr.width * ff.hdr.height IN
      /\ Len(ff.file) = 36 + 4 * n
      /\ \A i \in 1..Len(ff.file) : ff.file[i] \in 0..255
      /\ LE32At(ff.file, 1) = U32MinusOne
      /\ LE32At(ff.file, 5) = U32(ff.hdr.height)
      /\ LE32At(ff.file, 9) = U32(ff.hdr.width)
      /\ LE32At(ff.file, 13) = U32(ff.hdr.nframes)
      /\ LE32At(ff.file, 17) = U32(0)
      /\ LE32At(ff.file, 21) = ff.hdr.camno
      /\ LE32At(ff.file, 25) = U32(1)
      /\ LE32At(ff.file, 29) = U32(0)
      /\ LE32At(ff.file, 33) = U32(1000 * ff.hdr.fps)
      /\ \A j \in 1..4 :
           SubSeq(ff.file, 36 + (j - 1) * n + 1, 36 + j * n) = ff.planes[j]

C26_Witness ==
    /\ ff.pc = "returned" /\ ff.fn = "ff_write" /\ ff.rc = 0
    /\ ff.hdr.width = 4 /\ ff.hdr.height = 2
    /\ ff.hdr.camno = U32MinusOne
    /\ ff.planes[1] # ff.planes[2]

\* The header of C27: width 4, height 2, nframes 256, fps 25.0, camera id 1.
IsC27Header ==
    /\ ff.pc = "returned" /\ ff.fn = "ff_write" /\ ff.rc = 0
    /\ ff.hdr = [width |-> 4, height |-> 2, nframes |-> 256, fps |-> 25,
                 camno |-> U32(1)]

\* C27 as stated: for that header the first 36 bytes are FF FF FF FF
\* 02 00 00 00 04 00 00 00 00 01 00 00 00 00 00 00 01 00 00 00 01 00 00 00
\* 00 00 00 00 E8 61 00 00, followed by the four planes verbatim.
C27_AsStated ==
    IsC27Header =>
      /\ SubSeq(ff.file, 1, 36) =
           <<255, 255, 255, 255, 2, 0, 0, 0, 4, 0, 0, 0, 0, 1, 0, 0,
             0, 0, 0, 0, 1, 0, 0, 0, 1, 0, 0, 0, 0, 0, 0, 0, 232, 97, 0, 0>>
      /\ SubSeq(ff.file, 37, Len(ff.file)) =
           ff.planes[1] \o ff.planes[2] \o ff.planes[3] \o ff.planes[4]

\* C27, amended: the last field is 25000 = 0x000061A8, so the first 36
\* bytes end in A8 61 00 00; the four planes follow verbatim.
C27_HeaderBytes ==
    IsC27Header =>
      /\ SubSeq(ff.file, 1, 36) =
           <<255, 255, 255, 255, 2, 0, 0, 0, 4, 0, 0, 0, 0, 1, 0, 0,
             0, 0, 0, 0, 1, 0, 0, 0, 1, 0, 0, 0, 0, 0, 0, 0, 168, 97, 0, 0>>
      /\ SubSeq(ff.file, 37, Len(ff.file)) =
           ff.planes[1] \o ff.planes[2] \o ff.planes[3] \o ff.planes[4]

C27_Witness == IsC27Header /\ ff.planes[1] = <<0, 1, 2, 3, 4, 5, 6, 7>>

\* The digits of v in exactly w decimal places.
FixedDec(v, w) == [i \in 1..w |-> DigitChar[((v \div (10 ^ (w - i))) % 10) + 1]]

\* prefix, station, 8-digit date, 6-digit time, 3-digit milliseconds and
\* the suffix _000000.bin.
NameWith(prefix, hdr) ==
    prefix \o hdr.station_id \o <<"_">>
    \o FixedDec(hdr.year, 4) \o FixedDec(hdr.month, 2) \o FixedDec(hdr.day, 2)
    \o <<"_">>
    \o FixedDec(hdr.hour, 2) \o FixedDec(hdr.minute, 2) \o FixedDec(hdr.second, 2)
    \o <<"_">> \o FixedDec(hdr.millisecond, 3)
    \o <<"_", "0", "0", "0", "0", "0", "0", ".", "b", "i", "n">>

EpCalls(op) == {i \in 1..Len(ep.log) : ep.log[i].op = op}

\* The connection was made and every send() succeeded, down to the last
\* byte of the body.
EpAllSent ==
    /\ \E i \in EpCalls("connect") : ep.log[i].ok
    /\ \A i \in EpCalls("send") : ep.log[i].ok
    /\ ep.what = "body" /\ ep.left = 0 /\ ep.chunks = 0

\* Nothing is tried again: no connect() after a connect(), no send() after
\* a failed send().
EpNoRetry ==
    /\ \A i, j \in EpCalls("connect") : i = j
    /\ \A i, j \in EpCalls("send") : (i < j) => ep.log[i].ok

Range(q) == {q[i] : i \in 1..Len(q)}

\* C31: a drop in detector_push_frame leaves pending and active unchanged
\* and sets frame_count to 0; the next pushed frame resets the active block
\* before accumulating, so that the block holds that frame only; and a block
\* that completes holds frames of its own run only, none of a dropped run.
C31_DropLeavesNoData ==
    [][/\ (main_pc = "push_handoff" /\ main_pc' # "push_handoff" /\ pending >= 0) =>
            /\ pending' = pending /\ active' = active /\ frame_count' = 0
            /\ blocks' = blocks
       /\ (main_pc = "push" /\ main_pc' # "push" /\ frame_count = 0) =>
            /\ blocks'[active].frames = <<nframes>>
            /\ blocks'[active].frame_count = 1
       /\ (main_pc' = "push_lock" /\ main_pc # "push_lock") =>
            Range(blocks'[active].frames) \subseteq
              (nframes - FTP_BLOCK_FRAMES + 1)..nframes
      ]_vars

C31_Witness ==
    /\ hist.dropped # <<>>
    /\ main_pc = "push_lock"
    /\ nframes = (hist.dropped[Len(hist.dropped)] + 1) * FTP_BLOCK_FRAMES
    /\ blocks[active].frames = BlockRun(nframes \div FTP_BLOCK_FRAMES)

\* C35: pending is -1, 0 or 1, active is 0 or 1, and a pending block is
\* never the active block.
C35_PendingNotActive ==
    /\ pending \in {-1, 0, 1}
    /\ active \in {0, 1}
    /\ pending >= 0 => pending # active

C35_Witness ==
    /\ pending = 0 /\ active = 1 /\ Len(hist.handed) >= 3
    /\ frame_count > 0

\* C32: hough_find_peaks returns at most max_lines peaks, each from an
\* interior cell (rho index in [1, 2*RHO_MAX-1), theta in [1, THETA_STEPS-1)),
\* in scan order: ascending rho index, then ascending theta.
C32_InteriorScanOrder ==
    hg.pc = "peaks" =>
      /\ Len(hg.lines) <= DETECTOR_MAX_LINES
      /\ \A i \in 1..Len(hg.lines) :
           /\ hg.lines[i].rho + HOUGH_RHO_MAX >= 1
           /\ hg.lines[i].rho + HOUGH_RHO_MAX < 2 * HOUGH_RHO_MAX - 1
           /\ hg.lines[i].theta >= 1
           /\ hg.lines[i].theta < HOUGH_THETA_STEPS - 1
      /\ \A i \in 1..(Len(hg.lines) - 1) :
           \/ hg.lines[i].rho < hg.lines[i + 1].rho
           \/ /\ hg.lines[i].rho = hg.lines[i + 1].rho
              /\ hg.lines[i].theta < hg.lines[i + 1].theta

\* The list is full, and a cell of the theta = 0 column that passes both
\* tests of the scan is not in it.
C32_Witness ==
    /\ hg.pc = "peaks"
    /\ Len(hg.lines) = DETECTOR_MAX_LINES
    /\ \E c \in DOMAIN hg.accum :
         /\ c[2] = 0
         /\ IsPeak(hg.accum, hg.th, c[1], c[2])
         /\ c[1] - HOUGH_RHO_MAX < hg.lines[1].rho

\* C33: in both producer loops a successfully acquired frame is released
\* exactly once by the end of its iteration and its buffer is never read
\* after the release; a failed acquisition releases nothing and pushes
\* nothing to the detector or the stacker.
C33_ReleaseOncePerFrame ==
    [][/\ \A k \in 1..Len(gl'.frames) :
            /\ gl'.frames[k].released <= 1
            /\ gl'.frames[k].stale = 0
            /\ (gl'.pc \in {"test", "done"} => gl'.frames[k].released = 1)
       /\ (gl.pc = "get_frame" /\ gl'.pc = "test") =>
            /\ gl'.frames = gl.frames
            /\ gl'.det_pushed = gl.det_pushed
            /\ gl'.stk_pushed = gl.stk_pushed
       /\ gl'.det_pushed = [i \in 1..Len(gl'.det_pushed) |-> i]
       /\ gl'.stk_pushed = [i \in 1..Len(gl'.stk_pushed) |-> i]
      ]_vars

\* The meteor_module loop after a failed acquisition between two frames
\* that were acquired, released and pushed.
C33_Witness ==
    /\ gl.pc = "done" /\ gl.loop = "module"
    /\ gl.n = 3 /\ Len(gl.frames) = 2
    /\ gl.det_pushed = <<1, 2>>
    /\ gl.frames[1].released = 1 /\ gl.frames[2].released = 1

\* C34: when process_block has returned, the staging directory holds no
\* file created for the block, whatever the outcome.
C34_NoStagingFileLeft ==
    pb.pc = "done" => ~pb.file

\* C36: once detector_destroy has cleared running, a block still in pending
\* is never taken or processed, and once stacker_destroy has cleared running,
\* a stack with enc_pending set is never taken, encoded or posted: both are
\* left as they are until the state is freed.
C36_PendingDiscardedAtShutdown ==
    [][/\ ~det_running =>
            /\ pending' = pending
            /\ hist'.taken = hist.taken
            /\ (proc_pc' = "finalize" => proc_pc = "finalize")
       /\ ~st_running =>
            /\ enc_pending' = enc_pending
            /\ enc_loc' = enc_loc
            /\ (enc_pc' = "encode" => enc_pc = "encode")
      ]_vars

\* Both threads have returned and both objects are freed with a block and a
\* stack handed off and never taken.
C36_Witness ==
    /\ main_pc = "exited"
    /\ proc_pc = "done" /\ pending >= 0 /\ hist.taken = 0 /\ det_freed
    /\ enc_pc = "done" /\ enc_pending = 1 /\ enc_loc.ts = 0 /\ st_freed

\* C37: enc_ts_ms, enc_ivs and stack_index are written only by the producer
\* holding the mutex while enc_pending is 0, all three in the one step that
\* sets enc_pending; they do not change while enc_pending is 1; and the
\* encode thread's ts, idx and ivs change only by the copy it makes of all
\* three under the mutex in the step that clears enc_pending.  So the values
\* used for one stack are those of a single handoff.
C37_SingleHandoffValues ==
    [][/\ enc_pending = 1 =>
            <<enc_ts_ms, enc_ivs, stack_index>>' = <<enc_ts_ms, enc_ivs, stack_index>>
       /\ <<enc_ts_ms, enc_ivs, stack_index>>' # <<enc_ts_ms, enc_ivs, stack_index>> =>
            /\ st_mutex = "main" /\ enc_pending = 0 /\ enc_pending' = 1
            /\ enc_ts_ms' = nframes /\ enc_ivs' = ivs
            /\ stack_index' = stack_index + 1
       /\ enc_loc' # enc_loc =>
            /\ st_mutex = "enc" /\ enc_pending = 1 /\ enc_pending' = 0
            /\ enc_loc' = [ts |-> enc_ts_ms, idx |-> stack_index, ivs |-> enc_ivs]
      ]_vars

\* The encode thread works on the first stack with the values of the first
\* handoff while the shared fields already hold those of the second.
C37_Witness ==
    /\ enc_pc \in {"encode", "post_stack", "post_event"}
    /\ enc_loc.idx = 1 /\ enc_loc.ts = FramesPerStack
    /\ enc_pending = 1 /\ stack_index = 2 /\ enc_ts_ms = 2 * FramesPerStack

\* Whether at least secs seconds lie between the clock readings from and to.
SecondsElapsed(from, to, secs) ==
    \/ to.sec - from.sec > secs
    \/ (to.sec - from.sec = secs /\ to.nsec >= from.nsec)

\* C38: meteor_event_update makes only the transitions IDLE->ACTIVE (trigger
\* and event directory created), ACTIVE->COOLDOWN (no trigger),
\* COOLDOWN->ACTIVE (trigger) and COOLDOWN->IDLE (no trigger, and
\* cooldown_secs have elapsed since last_motion); a failed directory
\* creation leaves the state IDLE.
C38_EventTransitions ==
    [][ev.pc = "update" =>
         LET from == ev.ctx.state
             to   == ev'.ctx.state
         IN /\ from # to =>
                 \/ /\ from = "IDLE" /\ to = "ACTIVE"
                    /\ ev.triggered > 0 /\ ev'.mkdir = "ok"
                 \/ /\ from = "ACTIVE" /\ to = "COOLDOWN"
                    /\ ev.triggered = 0
                 \/ /\ from = "COOLDOWN" /\ to = "ACTIVE"
                    /\ ev.triggered > 0
                 \/ /\ from = "COOLDOWN" /\ to = "IDLE"
                    /\ ev.triggered = 0
                    /\ SecondsElapsed(ev.ctx.last_motion, ev.clock,
                                      ev.ctx.cfg.cooldown_secs)
            /\ ev'.mkdir = "failed" => to = "IDLE"
      ]_vars

\* The transitions of meteor_event_update with the cooldown measured as
\* the program measures it, in the milliseconds of elapsed_ms.
EvTransitionsAsMeasured ==
    [][ev.pc = "update" =>
         LET from == ev.ctx.state
             to   == ev'.ctx.state
         IN /\ from # to =>
                 \/ /\ from = "IDLE" /\ to = "ACTIVE"
                    /\ ev.triggered > 0 /\ ev'.mkdir = "ok"
                 \/ /\ from = "ACTIVE" /\ to = "COOLDOWN"
                    /\ ev.triggered = 0
                 \/ /\ from = "COOLDOWN" /\ to = "ACTIVE"
                    /\ ev.triggered > 0
                 \/ /\ from = "COOLDOWN" /\ to = "IDLE"
                    /\ ev.triggered = 0
                    /\ elapsed_ms(ev.ctx.last_motion, ev.clock)
                         >= ev.ctx.cfg.cooldown_secs * 1000
            /\ ev'.mkdir = "failed" => to = "IDLE"
      ]_vars

\* C39: with max_event_frames > 0, neither frame_count nor the number of
\* frames captured in one event exceeds max_event_frames; the loop captures
\* nothing in IDLE or at the cap; frame_count grows only by one, in the step
\* of a successful capture, and returns to 0 only in the update that goes
\* from IDLE to ACTIVE.
C39_FrameCap ==
    [][/\ ev'.ctx.cfg.max_event_frames > 0 =>
            /\ ev'.ctx.frame_count <= ev'.ctx.cfg.max_event_frames
            /\ Cardinality(ev'.files) <= ev'.ctx.cfg.max_event_frames
       /\ (/\ ev.pc = "should_capture"
           /\ \/ ev.ctx.state = "IDLE"
              \/ /\ ev.ctx.cfg.max_event_frames > 0
                 /\ ev.ctx.frame_count >= ev.ctx.cfg.max_event_frames) =>
            ev'.pc = "poll"
       /\ ev'.ctx.frame_count > ev.ctx.frame_count =>
            /\ ev.pc = "capture"
            /\ ev'.ctx.frame_count = ev.ctx.frame_count + 1
            /\ ev'.files = ev.files \cup {ev.ctx.frame_count}
       /\ ev'.ctx.frame_count < ev.ctx.frame_count =>
            /\ ev.pc = "update" /\ ev'.ctx.frame_count = 0
            /\ ev.ctx.state = "IDLE" /\ ev'.ctx.state = "ACTIVE"
       /\ (ev.ctx.state = "COOLDOWN" /\ ev'.ctx.state = "ACTIVE") =>
            ev'.ctx.frame_count = ev.ctx.frame_count
      ]_vars

\* An event at its cap, reactivated from COOLDOWN with frame_count kept,
\* whose next should_capture is due by the capture interval.
C39_Witness ==
    /\ ev.pc = "should_capture"
    /\ ev.ctx.state = "ACTIVE" /\ ev.mkdir = "none" /\ ev.triggered > 0
    /\ ev.ctx.cfg.max_event_frames = 2
    /\ ev.ctx.frame_count = 2 /\ ev.files = {0, 1}
    /\ elapsed_ms(ev.ctx.last_capture, ev.clock) >= ev.ctx.cfg.capture_interval_ms

====
